---- MODULE Spec2Model ----
(***************************************************************************)
(* Element Snatch CSS (src/main.js): selector synthesis, path synthesis    *)
(* and the nested-tree serializer, modelled over a small live DOM.         *)
(*                                                                         *)
(* Strings are sequences of one-character strings, so that escaping,       *)
(* joining, splitting and String.prototype.replace are computed character  *)
(* by character, as the code computes them.                                *)
(***************************************************************************)
EXTENDS Integers, Sequences, FiniteSets, TLC

VARIABLES
    dom,            \* the host document: node id -> [kind, parentElement, children]
    nativeEscape,   \* window.CSS.escape is available (src/main.js:463)
    last,           \* the last call made and what it returned
    run,            \* nodeCount and truncated of the last _css call, with
                    \* the values they went through while it ran
    walk,           \* the upward loop that is running: cur, guard and chain
    event,          \* the mouse event being dispatched, with its flags
    menus,          \* the menus the plugin has opened
    clipboard,      \* what the plugin wrote to the clipboard
    noticers,       \* the Noticer instances: _n and _t of each
    _all,           \* Noticer._all
    _noticers,      \* this._noticers of the plugin
    notices,        \* the Notices created, each showing or hidden
    timers,         \* the setTimeout callbacks registered
    styles,         \* element -> its inline filter and its __esc_prevFilter
    highlighter     \* this._hiDiv, this._hiStyle and this._hiTarget

noticerVars == <<noticers, _all, _noticers, notices, timers>>
highlightVars == <<styles, highlighter>>
hostVars == <<event, menus, clipboard, noticerVars, highlightVars>>
vars == <<dom, nativeEscape, last, run, walk, hostVars>>

(***************************************************************************)
(* Bounds of the model.                                                    *)
(***************************************************************************)
MaxSelElems == 4        \* elements in the document, selector runs
MaxPathElems == 4       \* elements in the document, path runs
MaxCssElems == 4        \* elements in the document, serializer runs
MaxRepeat == 2          \* times the same _css call is made in a row

(***************************************************************************)
(* Characters.                                                             *)
(***************************************************************************)
LowerLetters == {"a","b","c","d","e","f","g","h","i","j","k","l","m",
                 "n","o","p","q","r","s","t","u","v","w","x","y","z"}
UpperLetters == {"A","B","C","D","E","F","G","H","I","J","K","L","M",
                 "N","O","P","Q","R","S","T","U","V","W","X","Y","Z"}
DigitChars == <<"0","1","2","3","4","5","6","7","8","9">>
HexChars == <<"0","1","2","3","4","5","6","7","8","9","a","b","c","d","e","f">>
DigitSet == {DigitChars[i] : i \in 1..10}

\* String.prototype.charCodeAt(0), on the characters the documents below use
charCodeAt(c) ==
    CASE c = "\t" -> 9
      [] c = "\n" -> 10
      [] c = " " -> 32
      [] c = "\"" -> 34
      [] c = "#" -> 35
      [] c = "*" -> 42
      [] c = "." -> 46
      [] c = ":" -> 58
      [] c = ">" -> 62
      [] c = "\\" -> 92
      [] c = "{" -> 123
      [] c = "}" -> 125
      [] c \in DigitSet -> 48 + (CHOOSE i \in 0..9 : DigitChars[i + 1] = c)
      [] OTHER -> 0

\* Number.prototype.toString(16)
RECURSIVE toString16(_)
toString16(n) ==
    IF n < 16 THEN <<HexChars[n + 1]>>
    ELSE toString16(n \div 16) \o <<HexChars[(n % 16) + 1]>>

\* decimal rendering of a number inside a string concatenation
RECURSIVE toString10(_)
toString10(n) ==
    IF n < 10 THEN <<DigitChars[n + 1]>>
    ELSE toString10(n \div 10) \o <<DigitChars[(n % 10) + 1]>>

\* String.prototype.toLowerCase, one character
LowerOf(c) ==
    CASE c = "A" -> "a" [] c = "B" -> "b" [] c = "C" -> "c" [] c = "D" -> "d"
      [] c = "E" -> "e" [] c = "F" -> "f" [] c = "G" -> "g" [] c = "H" -> "h"
      [] c = "I" -> "i" [] c = "J" -> "j" [] c = "K" -> "k" [] c = "L" -> "l"
      [] c = "M" -> "m" [] c = "N" -> "n" [] c = "O" -> "o" [] c = "P" -> "p"
      [] c = "Q" -> "q" [] c = "R" -> "r" [] c = "S" -> "s" [] c = "T" -> "t"
      [] c = "U" -> "u" [] c = "V" -> "v" [] c = "W" -> "w" [] c = "X" -> "x"
      [] c = "Y" -> "y" [] c = "Z" -> "z"
      [] OTHER -> c

toLowerCase(s) == [i \in 1..Len(s) |-> LowerOf(s[i])]

\* Array.prototype.join
RECURSIVE join(_, _)
join(parts, sep) ==
    IF Len(parts) = 0 THEN <<>>
    ELSE IF Len(parts) = 1 THEN parts[1]
    ELSE parts[1] \o sep \o join(Tail(parts), sep)

(***************************************************************************)
(* The document.  Every element is of one of a few kinds: its tag name,    *)
(* id, class list and direct text nodes.  Nodes 1 and 2 are the document   *)
(* element and document.body.                                              *)
(***************************************************************************)
Kinds == <<
    [tagName |-> <<"H","T","M","L">>, id |-> <<>>, classList |-> <<>>,
     texts |-> <<>>],
    [tagName |-> <<"B","O","D","Y">>, id |-> <<>>, classList |-> <<>>,
     texts |-> <<>>],
    [tagName |-> <<"L","I">>, id |-> <<>>, classList |-> << <<"x">> >>,
     texts |-> << <<"A">> >>],
    [tagName |-> <<"L","I">>, id |-> <<>>, classList |-> << <<"x">> >>,
     texts |-> << <<" ">>, <<"B"," ","\n","b">> >>],
    [tagName |-> <<"P">>, id |-> <<"a",":","b">>,
     classList |-> << <<"y">>, <<"x">> >>, texts |-> <<>>],
    [tagName |-> <<"D","I","V">>, id |-> <<>>,
     classList |-> << <<"-","1">>, <<"y",":">> >>, texts |-> << <<"\"">> >>],
    [tagName |-> <<"S","C","R","I","P","T">>, id |-> <<>>,
     classList |-> << <<"x">> >>, texts |-> << <<"A">> >>],
    [tagName |-> <<"L","I">>, id |-> <<>>, classList |-> << <<"{">> >>,
     texts |-> << <<"A">> >>]
>>

HtmlKind == 1
BodyKind == 2
ElemKinds == 3..6
ScriptKind == 7
BraceKind == 8

Nodes == 1..Len(dom)
null == 0
body == 2

\* the document node: a node that is not an element
document == -1
ELEMENT_NODE == 1
DOCUMENT_NODE == 9
nodeType(n) == IF n = document THEN DOCUMENT_NODE ELSE ELEMENT_NODE

tagName(n) == Kinds[dom[n].kind].tagName
idOf(n) == Kinds[dom[n].kind].id
classList(n) == Kinds[dom[n].kind].classList
textNodes(n) == Kinds[dom[n].kind].texts
parentElement(n) == dom[n].parentElement
children(n) == dom[n].children

previousElementSibling(n) ==
    IF parentElement(n) = null THEN null
    ELSE LET sibs == children(parentElement(n))
             i == CHOOSE j \in 1..Len(sibs) : sibs[j] = n
         IN IF i = 1 THEN null ELSE sibs[i - 1]

InitDom == <<[kind |-> HtmlKind, parentElement |-> null, children |-> <<2>>],
             [kind |-> BodyKind, parentElement |-> 1, children |-> <<>>]>>

\* parent.appendChild(new element of kind k); elements are numbered in
\* breadth-first order, so every ordered tree is built exactly once
appendChild(p, k) ==
    LET n == Len(dom) + 1
    IN [i \in 1..n |->
            IF i = n THEN [kind |-> k, parentElement |-> p, children |-> <<>>]
            ELSE IF i = p THEN [dom[i] EXCEPT !.children = Append(@, n)]
            ELSE dom[i]]

(***************************************************************************)
(* Options.                                                                *)
(***************************************************************************)
Infinity == [finite |-> FALSE, n |-> 0]
Finite(k) == [finite |-> TRUE, n |-> k]
Exceeds(depth, limit) == limit.finite /\ depth > limit.n

DefaultMaxNodes == 5000

\* the defaults of _css
DefaultOpts ==
    [useIds |-> TRUE, useClasses |-> TRUE, includeTagIfNoClasses |-> TRUE,
     includeNthChild |-> FALSE, maxDepth |-> Infinity,
     maxNodes |-> DefaultMaxNodes]

SelectorOpts ==
    {[DefaultOpts EXCEPT !.useIds = a, !.useClasses = b,
                         !.includeTagIfNoClasses = c, !.includeNthChild = d] :
        a \in BOOLEAN, b \in BOOLEAN, c \in BOOLEAN, d \in BOOLEAN}

(***************************************************************************)
(* _cssEscape                                                              *)
(***************************************************************************)
IsIdentChar(c) == c \in LowerLetters \cup UpperLetters \cup DigitSet \cup {"_", "-"}

HexEscape(c) == <<"\\">> \o toString16(charCodeAt(c)) \o <<" ">>

\* the fallback: str.replace(/[^a-zA-Z0-9_-]/g, c => "\\" + hex + " ")
RECURSIVE FallbackEscape(_)
FallbackEscape(str) ==
    IF Len(str) = 0 THEN <<>>
    ELSE (IF IsIdentChar(Head(str)) THEN <<Head(str)>> ELSE HexEscape(Head(str)))
         \o FallbackEscape(Tail(str))

\* CSS.escape of the platform (CSSOM serialize-an-identifier)
NativeEscapeChar(str, i) ==
    LET c == str[i]
        code == charCodeAt(c)
    IN IF (code >= 1 /\ code <= 31) \/ code = 127 THEN HexEscape(c)
       ELSE IF i = 1 /\ c \in DigitSet THEN HexEscape(c)
       ELSE IF i = 2 /\ c \in DigitSet /\ str[1] = "-" THEN HexEscape(c)
       ELSE IF i = 1 /\ c = "-" /\ Len(str) = 1 THEN <<"\\", c>>
       ELSE IF IsIdentChar(c) THEN <<c>>
       ELSE <<"\\", c>>

RECURSIVE NativeEscapeFrom(_, _)
NativeEscapeFrom(str, i) ==
    IF i > Len(str) THEN <<>>
    ELSE NativeEscapeChar(str, i) \o NativeEscapeFrom(str, i + 1)

_cssEscape(str) ==
    IF nativeEscape THEN NativeEscapeFrom(str, 1) ELSE FallbackEscape(str)

(***************************************************************************)
(* _selectorFor                                                            *)
(***************************************************************************)
\* let i = 1, sib = node; while ((sib = sib.previousElementSibling)) i++;
RECURSIVE NthChildIndex(_, _)
NthChildIndex(sib, i) ==
    IF previousElementSibling(sib) = null THEN i
    ELSE NthChildIndex(previousElementSibling(sib), i + 1)

\* a variant that keeps only the first class
EscapedClassesFirstOnly(node) ==
    LET kept == SelectSeq(classList(node), LAMBDA c : Len(c) > 0)
    IN [i \in 1..(IF Len(kept) > 0 THEN 1 ELSE 0) |-> _cssEscape(kept[i])]

\* Array.from(node.classList).filter(Boolean).map(c => this._cssEscape(c))
EscapedClasses(node) ==
    LET kept == SelectSeq(classList(node), LAMBDA c : Len(c) > 0)
    IN [i \in 1..Len(kept) |-> _cssEscape(kept[i])]

\* a variant that tries the class rule before the id rule
SelectorRuleClassFirst(node, opts) ==
    IF opts.useClasses /\ Len(classList(node)) > 0 THEN "class"
    ELSE IF opts.useIds /\ Len(idOf(node)) > 0 THEN "id"
    ELSE "tag"

SelectorRule(node, opts) ==
    IF opts.useIds /\ Len(idOf(node)) > 0 THEN "id"
    ELSE IF opts.useClasses /\ Len(classList(node)) > 0
            /\ Len(EscapedClasses(node)) > 0 THEN "class"
    ELSE "tag"

NthChildQualifier(node, opts) ==
    IF opts.includeNthChild /\ parentElement(node) # null
    THEN <<":","n","t","h","-","c","h","i","l","d","(">>
         \o toString10(NthChildIndex(node, 1)) \o <<")">>
    ELSE <<>>

_selectorFor(node, opts) ==
    CASE SelectorRule(node, opts) = "id" -> <<"#">> \o _cssEscape(idOf(node))
      [] SelectorRule(node, opts) = "class" ->
            <<".">> \o join(EscapedClasses(node), <<".">>)
      [] OTHER ->
            (IF opts.includeTagIfNoClasses THEN toLowerCase(tagName(node))
             ELSE <<"*">>)
            \o NthChildQualifier(node, opts)

(***************************************************************************)
(* _buildAncestry and _buildPathsBetween                                   *)
(***************************************************************************)
AncestryCeiling == 2000
PathCeilingFirst == 2000
PathCeiling == 5000

reverse(s) == [i \in 1..Len(s) |-> s[Len(s) + 1 - i]]

\* Array.prototype.indexOf, 0-based, -1 when absent
indexOf(s, e) ==
    IF \E i \in 1..Len(s) : s[i] = e
    THEN (CHOOSE i \in 1..Len(s) : s[i] = e /\ \A j \in 1..(i - 1) : s[j] # e) - 1
    ELSE -1

\* while (cur && cur.nodeType === 1 && guard++ < 2000) {
\*   chain.push(cur); if (cur === stopAt || !cur.parentElement) break;
\*   cur = cur.parentElement; }
RECURSIVE AncestryWalk(_, _, _, _)
AncestryWalk(cur, guard, chain, stopAt) ==
    IF cur = null \/ nodeType(cur) # ELEMENT_NODE \/ ~(guard < AncestryCeiling)
    THEN chain
    ELSE IF cur = stopAt \/ parentElement(cur) = null THEN Append(chain, cur)
    ELSE AncestryWalk(parentElement(cur), guard + 1, Append(chain, cur), stopAt)

\* a variant that forgets chain.reverse()
_buildAncestryNodeFirst(node, stopAt) == AncestryWalk(node, 0, <<>>, stopAt)

_buildAncestry(node, stopAt) == reverse(AncestryWalk(node, 0, <<>>, stopAt))

\* while (cur && cur.nodeType === 1 && guard++ < ceiling) {
\*   chain.push(cur); if (cur === ancestor) break; cur = cur.parentElement; }
RECURSIVE UpwardWalk(_, _, _, _, _)
UpwardWalk(cur, guard, chain, ancestor, ceiling) ==
    IF cur = null \/ nodeType(cur) # ELEMENT_NODE \/ ~(guard < ceiling)
    THEN chain
    ELSE IF cur = ancestor THEN Append(chain, cur)
    ELSE UpwardWalk(parentElement(cur), guard + 1, Append(chain, cur),
                    ancestor, ceiling)

EndsAt(chain, ancestor) == Len(chain) > 0 /\ chain[Len(chain)] = ancestor

\* a variant that forgets chain.reverse()
PathChainNotReversed(ancestorEl, targetEl) ==
    LET chain == UpwardWalk(targetEl, 0, <<>>, ancestorEl, PathCeiling)
    IN IF EndsAt(chain, ancestorEl) THEN chain ELSE Append(chain, ancestorEl)

\* the live definition: the chain, ancestor first, that is turned into tokens
PathChain(ancestorEl, targetEl) ==
    LET chain == UpwardWalk(targetEl, 0, <<>>, ancestorEl, PathCeiling)
    IN reverse(IF EndsAt(chain, ancestorEl) THEN chain
               ELSE Append(chain, ancestorEl))

\* the first definition: trims with the index found in the body-first ancestry
PathChainFirst(ancestor, target) ==
    LET chain == UpwardWalk(target, 0, <<>>, ancestor, PathCeilingFirst)
        bodyChain == _buildAncestry(target, body)
        idx == indexOf(bodyChain, ancestor)
    IN reverse(IF ~EndsAt(chain, ancestor) /\ idx >= 0
               THEN SubSeq(chain, 1, idx + 1)
               ELSE chain)

\* a variant that writes the combinator without the surrounding spaces
ChildSeparatorTight == <<">">>

DescendantSeparator == <<" ">>
ChildSeparator == <<" ", ">", " ">>

PathPair(sels) ==
    [descendant |-> join(sels, DescendantSeparator),
     child |-> join(sels, ChildSeparator)]

EmptyPair == [descendant |-> <<>>, child |-> <<>>]

\* the options the live definition hands to _selectorFor
PathOpts(includeNthChild) ==
    [DefaultOpts EXCEPT !.includeNthChild = includeNthChild]

PathTokens(chain, opts) == [i \in 1..Len(chain) |-> _selectorFor(chain[i], opts)]

_buildPathsBetween(ancestorEl, targetEl, opts) ==
    IF ancestorEl = null \/ targetEl = null THEN EmptyPair
    ELSE PathPair(PathTokens(PathChain(ancestorEl, targetEl),
                             PathOpts(opts.includeNthChild)))

_buildPathsBetween_first(ancestor, target, opts) ==
    IF ancestor = null \/ target = null THEN EmptyPair
    ELSE PathPair(PathTokens(PathChainFirst(ancestor, target), opts))

(***************************************************************************)
(* _css: the nested-tree serializer                                        *)
(***************************************************************************)
indent == <<" ", " ">>
skipTags == {<<"S","C","R","I","P","T">>, <<"S","T","Y","L","E">>,
             <<"T","E","M","P","L","A","T","E">>}
TextLimit == 50
TextKept == 47

Whitespace == {" ", "\t", "\n"}

\* String.prototype.repeat
RECURSIVE repeat(_, _)
repeat(s, n) == IF n <= 0 THEN <<>> ELSE s \o repeat(s, n - 1)

\* s.replace(/\s+/g, " ")
RECURSIVE CollapseWhitespace(_, _)
CollapseWhitespace(s, inRun) ==
    IF Len(s) = 0 THEN <<>>
    ELSE IF Head(s) \in Whitespace
         THEN (IF inRun THEN <<>> ELSE <<" ">>) \o CollapseWhitespace(Tail(s), TRUE)
         ELSE <<Head(s)>> \o CollapseWhitespace(Tail(s), FALSE)

\* String.prototype.trim
RECURSIVE trim(_)
trim(s) ==
    IF Len(s) = 0 THEN s
    ELSE IF Head(s) \in Whitespace THEN trim(Tail(s))
    ELSE IF s[Len(s)] \in Whitespace THEN trim(SubSeq(s, 1, Len(s) - 1))
    ELSE s

\* s.replace(/c/g, rep) for a single character c
RECURSIVE replaceAll(_, _, _)
replaceAll(s, c, rep) ==
    IF Len(s) = 0 THEN <<>>
    ELSE (IF Head(s) = c THEN rep ELSE <<Head(s)>>) \o replaceAll(Tail(s), c, rep)

\* s.replace(/c/, rep): the first occurrence only
RECURSIVE replaceFirst(_, _, _)
replaceFirst(s, c, rep) ==
    IF Len(s) = 0 THEN <<>>
    ELSE IF Head(s) = c THEN rep \o Tail(s)
    ELSE <<Head(s)>> \o replaceFirst(Tail(s), c, rep)

\* the text of one text node as it is written into a content line
TextOf(nodeValue) ==
    LET s == trim(CollapseWhitespace(nodeValue, FALSE))
        cut == IF Len(s) > TextLimit
               THEN SubSeq(s, 1, TextKept) \o <<".", ".", ".">> ELSE s
    IN replaceAll(replaceAll(cut, "\\", <<"\\", "\\">>), "\"", <<"\\", "\"">>)

NonEmptyTexts(node) ==
    SelectSeq(textNodes(node),
              LAMBDA v : Len(trim(CollapseWhitespace(v, FALSE))) > 0)

textContentsFor(node) ==
    [i \in 1..Len(NonEmptyTexts(node)) |-> TextOf(NonEmptyTexts(node)[i])]

primaryTextFor(node) ==
    IF Len(NonEmptyTexts(node)) = 0 THEN <<>> ELSE TextOf(NonEmptyTexts(node)[1])

OpenerLine(depth, curSel) == repeat(indent, depth) \o curSel \o <<" ", "{", "\n">>
CloserLine(depth) == repeat(indent, depth) \o <<"}", "\n">>
ContentLine(depth, s) ==
    repeat(indent, depth + 1)
    \o <<"c","o","n","t","e","n","t",":"," ","\"">> \o s \o <<"\"", ";", "\n">>

PathLines(depth, pathSelectors) ==
    ContentLine(depth, join(pathSelectors, DescendantSeparator))
    \o ContentLine(depth, join(pathSelectors, ChildSeparator))

RECURSIVE TextLines(_, _)
TextLines(depth, texts) ==
    IF Len(texts) = 0 THEN <<>>
    ELSE ContentLine(depth, Head(texts)) \o TextLines(depth, Tail(texts))

TimesMarker(count) ==
    <<"{", " ", "/", "*", "*", " ">> \o toString10(count)
    \o <<" ", "t", "i", "m", "e", "s", " ", "*", "/">>

TruncationMarker ==
    <<"/","*"," ","t","r","u","n","c","a","t","e","d",":"," ",
      "r","e","a","c","h","e","d"," ","m","a","x","N","o","d","e","s"," ",
      "l","i","m","i","t"," ","*","/","\n">>

\* a variant whose counters outlive the call
CarriedRun(previous) ==
    [previous EXCEPT !.visited = 0, !.history = <<>>]

\* let nodeCount = 0; let truncated = false;  (visited counts the canonical
\* renders that got past both checks, history the values gone through)
FreshRun(previous) ==
    [nodeCount |-> 0, truncated |-> FALSE, visited |-> 0, history |-> <<>>]

Snapshot(st) ==
    [st EXCEPT !.history = Append(@, [nodeCount |-> st.nodeCount,
                                       truncated |-> st.truncated,
                                       visited |-> st.visited])]

\* a variant that compares before it increments: nodeCount++ > opts.maxNodes
OverLimitPostIncrement(nodeCountBefore, maxNodes) == nodeCountBefore > maxNodes

\* ++nodeCount > opts.maxNodes, given the value before the increment
OverLimit(nodeCountBefore, maxNodes) == nodeCountBefore + 1 > maxNodes

\* a variant that overlooks the elements that have children of their own
SkippedChildless(child) ==
    tagName(child) \in skipTags /\ Len(children(child)) = 0

\* opts.skipTags && opts.skipTags.has(child.tagName)
Skipped(child) == tagName(child) \in skipTags

RECURSIVE renderCanonical(_, _, _, _, _)
RECURSIVE CanonicalChildren(_, _, _, _, _, _, _)
RECURSIVE CanonicalNext(_, _, _, _, _, _, _)

\* the block of a node whose canonical children have been rendered
CanonicalBlock(depth, pathSelectors, kids) ==
    [block |-> OpenerLine(depth, pathSelectors[Len(pathSelectors)])
               \o PathLines(depth, pathSelectors)
               \o kids.block
               \o CloserLine(depth),
     st |-> kids.st]

\* a variant that counts the node before it looks at the depth
renderCanonicalCountFirst(node, depth, pathSelectors, opts, st) ==
    IF OverLimit(st.nodeCount, opts.maxNodes)
    THEN [block |-> <<>>,
          st |-> Snapshot([st EXCEPT !.nodeCount = @ + 1, !.truncated = TRUE])]
    ELSE IF Exceeds(depth, opts.maxDepth)
    THEN [block |-> <<>>, st |-> Snapshot([st EXCEPT !.nodeCount = @ + 1])]
    ELSE CanonicalBlock(depth, pathSelectors,
            CanonicalChildren(node, 1, depth, pathSelectors, opts,
                Snapshot([st EXCEPT !.nodeCount = @ + 1, !.visited = @ + 1]),
                <<>>))

\* if (depth > opts.maxDepth) return ""; if (++nodeCount > opts.maxNodes) ...
renderCanonical(node, depth, pathSelectors, opts, st) ==
    IF Exceeds(depth, opts.maxDepth) THEN [block |-> <<>>, st |-> st]
    ELSE IF OverLimit(st.nodeCount, opts.maxNodes)
    THEN [block |-> <<>>,
          st |-> Snapshot([st EXCEPT !.nodeCount = @ + 1, !.truncated = TRUE])]
    ELSE CanonicalBlock(depth, pathSelectors,
            CanonicalChildren(node, 1, depth, pathSelectors, opts,
                Snapshot([st EXCEPT !.nodeCount = @ + 1, !.visited = @ + 1]),
                <<>>))

\* for (child = node.firstElementChild; child; child = child.nextElementSibling)
CanonicalChildren(node, i, depth, pathSelectors, opts, st, childTexts) ==
    IF i > Len(children(node)) THEN [block |-> childTexts, st |-> st]
    ELSE IF Skipped(children(node)[i])
    THEN CanonicalChildren(node, i + 1, depth, pathSelectors, opts, st, childTexts)
    ELSE CanonicalNext(node, i, depth, pathSelectors, opts, childTexts,
            renderCanonical(children(node)[i], depth + 1,
                Append(pathSelectors, _selectorFor(children(node)[i], opts)),
                opts, st))

\* if (truncated) break; if (c) childTexts.push(c);
CanonicalNext(node, i, depth, pathSelectors, opts, childTexts, c) ==
    IF c.st.truncated THEN [block |-> childTexts, st |-> c.st]
    ELSE CanonicalChildren(node, i + 1, depth, pathSelectors, opts,
                           c.st, childTexts \o c.block)

\* a variant that joins a child to the group before it only
RECURSIVE GroupByCanonAdjacent(_, _, _)
GroupByCanonAdjacent(canon, i, groups) ==
    IF i > Len(canon) THEN groups
    ELSE IF Len(groups) > 0 /\ groups[Len(groups)].key = canon[i]
    THEN GroupByCanonAdjacent(canon, i + 1,
                [groups EXCEPT ![Len(groups)].indexList = Append(@, i)])
    ELSE GroupByCanonAdjacent(canon, i + 1,
                Append(groups, [key |-> canon[i], indexList |-> <<i>>]))

\* a variant that puts every new group before the groups it has
RECURSIVE GroupByCanonNewestFirst(_, _, _)
GroupByCanonNewestFirst(canon, i, groups) ==
    IF i > Len(canon) THEN groups
    ELSE IF \E g \in 1..Len(groups) : groups[g].key = canon[i]
    THEN LET g == CHOOSE h \in 1..Len(groups) : groups[h].key = canon[i]
         IN GroupByCanonNewestFirst(canon, i + 1,
                [groups EXCEPT ![g].indexList = Append(@, i)])
    ELSE GroupByCanonNewestFirst(canon, i + 1,
                <<[key |-> canon[i], indexList |-> <<i>>]>> \o groups)

\* group the canonical strings, groups in order of first occurrence
RECURSIVE GroupByCanon(_, _, _)
GroupByCanon(canon, i, groups) ==
    IF i > Len(canon) THEN groups
    ELSE IF \E g \in 1..Len(groups) : groups[g].key = canon[i]
    THEN LET g == CHOOSE h \in 1..Len(groups) : groups[h].key = canon[i]
         IN GroupByCanon(canon, i + 1,
                [groups EXCEPT ![g].indexList = Append(@, i)])
    ELSE GroupByCanon(canon, i + 1,
                Append(groups, [key |-> canon[i], indexList |-> <<i>>]))

\* a variant that repeats the representative's text for every occurrence
OverrideTextsOfRepresentative(items, indexList) ==
    IF Len(indexList) > 1
    THEN [k \in 1..Len(indexList) |-> primaryTextFor(items[indexList[1]].child)]
    ELSE <<>>

\* overrideTexts: one primary text per occurrence when duplicates collapse
OverrideTexts(items, indexList) ==
    IF Len(indexList) > 1
    THEN [k \in 1..Len(indexList) |-> primaryTextFor(items[indexList[k]].child)]
    ELSE <<>>

RECURSIVE renderFinal(_, _, _, _, _, _)
RECURSIVE FinalScan(_, _, _, _, _, _, _, _)
RECURSIVE FinalNext(_, _, _, _, _, _, _, _, _)
RECURSIVE EmitGroups(_, _, _, _, _, _, _, _)
RECURSIVE EmitNext(_, _, _, _, _, _, _, _)

\* texts = overrideTexts && overrideTexts.length ? overrideTexts : textContentsFor(node)
BlockTexts(node, overrideTexts) ==
    IF Len(overrideTexts) > 0 THEN overrideTexts ELSE textContentsFor(node)

TextLinesOrEmpty(depth, texts) ==
    IF Len(texts) = 0 THEN ContentLine(depth, <<>>) ELSE TextLines(depth, texts)

\* the block of a node whose groups of children have been emitted
FinalBlock(node, depth, pathSelectors, overrideTexts, emitted) ==
    [block |-> OpenerLine(depth, pathSelectors[Len(pathSelectors)])
               \o PathLines(depth, pathSelectors)
               \o TextLinesOrEmpty(depth, BlockTexts(node, overrideTexts))
               \o emitted.block
               \o CloserLine(depth),
     st |-> emitted.st]

\* group what the children loop retained and emit the groups
EmitScanned(scan, depth, pathSelectors, opts) ==
    EmitGroups(GroupByCanon(scan.canon, 1, <<>>), 1, scan.items, depth,
               pathSelectors, opts, scan.st, <<>>)

renderFinal(node, depth, pathSelectors, overrideTexts, opts, st) ==
    IF Exceeds(depth, opts.maxDepth) THEN [block |-> <<>>, st |-> st]
    ELSE FinalBlock(node, depth, pathSelectors, overrideTexts,
            EmitScanned(FinalScan(node, 1, depth, pathSelectors, opts, st,
                                  <<>>, <<>>),
                        depth, pathSelectors, opts))

\* the children loop of renderFinal: canonical string and item per retained child
FinalScan(node, i, depth, pathSelectors, opts, st, canon, items) ==
    IF i > Len(children(node)) THEN [canon |-> canon, items |-> items, st |-> st]
    ELSE IF Skipped(children(node)[i])
    THEN FinalScan(node, i + 1, depth, pathSelectors, opts, st, canon, items)
    ELSE FinalNext(node, i, depth, pathSelectors, opts, canon, items,
            _selectorFor(children(node)[i], opts),
            renderCanonical(children(node)[i], depth + 1,
                Append(pathSelectors, _selectorFor(children(node)[i], opts)),
                opts, st))

\* if (truncated) break; if (!cStr) continue; canon.push(cStr); items.push(...)
FinalNext(node, i, depth, pathSelectors, opts, canon, items, childSel, c) ==
    IF c.st.truncated THEN [canon |-> canon, items |-> items, st |-> c.st]
    ELSE IF Len(c.block) = 0
    THEN FinalScan(node, i + 1, depth, pathSelectors, opts, c.st, canon, items)
    ELSE FinalScan(node, i + 1, depth, pathSelectors, opts, c.st,
                   Append(canon, c.block),
                   Append(items, [child |-> children(node)[i], sel |-> childSel]))

\* if (count > 1) childFinal = childFinal.replace(/\{/, "{ /** " + count + " times */")
Annotate(childFinal, count) ==
    IF count > 1 THEN replaceFirst(childFinal, "{", TimesMarker(count))
    ELSE childFinal

\* one final block per group, rendered from the group's first member
EmitGroups(groups, g, items, depth, pathSelectors, opts, st, block) ==
    IF g > Len(groups) THEN [block |-> block, st |-> st]
    ELSE EmitNext(groups, g, items, depth, pathSelectors, opts, block,
            renderFinal(items[groups[g].indexList[1]].child, depth + 1,
                Append(pathSelectors, items[groups[g].indexList[1]].sel),
                OverrideTexts(items, groups[g].indexList), opts, st))

EmitNext(groups, g, items, depth, pathSelectors, opts, block, childFinal) ==
    EmitGroups(groups, g + 1, items, depth, pathSelectors, opts, childFinal.st,
               block \o Annotate(childFinal.block, Len(groups[g].indexList)))

\* if (truncated) out += "/* truncated: reached maxNodes limit */\n"
Finish(r) ==
    [out |-> IF r.st.truncated THEN r.block \o TruncationMarker ELSE r.block,
     st |-> r.st]

\* _css: the text returned and the counters at the end of the call
_css(root, opts, previous) ==
    IF root = null \/ nodeType(root) # ELEMENT_NODE
    THEN [out |-> <<>>, st |-> FreshRun(previous)]
    ELSE Finish(renderFinal(root, 0, <<_selectorFor(root, opts)>>, <<>>,
                            opts, FreshRun(previous)))

(***************************************************************************)
(* Noticer, _withNotice and _copyText                                      *)
(***************************************************************************)
\* a number handed to show(): finite or not, and its value in half
\* milliseconds, so that a fraction of a millisecond can be written
NotANumber == [finite |-> FALSE, halves |-> 0]
Milliseconds(k) == [finite |-> TRUE, halves |-> 2 * k]
HalfMillisecond == [finite |-> TRUE, halves |-> 1]

DefaultTimeout == 3000
ForgetDelay == 1000
CopiedTimeout == 5000
FailedTimeout == 10000

Max(a, b) == IF a >= b THEN a ELSE b

\* timeout | 0: the fraction is dropped, towards zero
ToInt32(timeout) ==
    IF timeout.halves >= 0 THEN timeout.halves \div 2
    ELSE -((-timeout.halves) \div 2)

\* Number.isFinite(timeout) ? Math.max(0, timeout | 0) : 3000
TimeoutMs(timeout) ==
    IF timeout.finite THEN Max(0, ToInt32(timeout)) ELSE DefaultTimeout

\* the Noticer objects, the Notices and the timers, taken together
NoticerWorld ==
    [noticers |-> noticers, all |-> _all, plugin |-> _noticers,
     notices |-> notices, timers |-> timers]

AtRest ==
    [noticers |-> <<>>, all |-> {}, plugin |-> {}, notices |-> <<>>,
     timers |-> <<>>]

Becomes(w) ==
    /\ noticers' = w.noticers
    /\ _all' = w.all
    /\ _noticers' = w.plugin
    /\ notices' = w.notices
    /\ timers' = w.timers

\* constructor: this._n = null; this._t = null; Noticer._all.add(this)
NewNoticer(w) ==
    [w EXCEPT !.noticers = Append(@, [_n |-> null, _t |-> null]),
              !.all = @ \cup {Len(w.noticers) + 1}]

\* a variant that forgets the timer without cancelling it
ClearTimerNotCancelled(w, i) == [w EXCEPT !.noticers[i]._t = null]

\* if (this._t) { clearTimeout(this._t); this._t = null; }
ClearTimer(w, i) ==
    IF w.noticers[i]._t # null
    THEN [w EXCEPT !.timers[w.noticers[i]._t].pending = FALSE,
                   !.noticers[i]._t = null]
    ELSE w

\* if (this._n && typeof this._n.hide === "function") this._n.hide()
HideNotice(w, i) ==
    IF w.noticers[i]._n # null
    THEN [w EXCEPT !.notices[w.noticers[i]._n].hidden = TRUE]
    ELSE w

dispose(w, i) ==
    [HideNotice(ClearTimer(w, i), i) EXCEPT !.noticers[i]._n = null,
                                            !.all = @ \ {i}]

\* this._n = new Notice(String(message || ""), 0)
NewNotice(w, i, message) ==
    [w EXCEPT !.notices = Append(@, [message |-> message, hidden |-> FALSE]),
              !.noticers[i]._n = Len(w.notices) + 1]

\* if (ms > 0) this._t = setTimeout(() => this.dispose(), ms)
ArmTimer(w, i, ms) ==
    IF ms > 0
    THEN [w EXCEPT !.timers = Append(@, [fn |-> "dispose", of |-> i,
                                         ms |-> ms, pending |-> TRUE]),
                   !.noticers[i]._t = Len(w.timers) + 1]
    ELSE w

show(w, i, message, timeout) ==
    ArmTimer(NewNotice(dispose(w, i), i, message), i, TimeoutMs(timeout))

isActive(w, i) == w.noticers[i]._n # null

getNoticers(w) == w.all

\* for (const n of Array.from(Noticer._all)) n.dispose()
RECURSIVE disposeEach(_, _)
disposeEach(w, rest) ==
    IF rest = {} THEN w
    ELSE disposeEach(dispose(w, CHOOSE i \in rest : \A j \in rest : i <= j),
                     rest \ {CHOOSE i \in rest : \A j \in rest : i <= j})

disposeAll(w) == disposeEach(w, w.all)

\* this._noticers.add(n); setTimeout(() => this._noticers.delete(n), ms + 1000)
Register(w, i, timeoutMs) ==
    [w EXCEPT !.plugin = @ \cup {i},
              !.timers = Append(@, [fn |-> "forget", of |-> i,
                                    ms |-> TimeoutMs(timeoutMs) + ForgetDelay,
                                    pending |-> TRUE])]

\* const n = new Noticer().show(message, timeoutMs); ...; return n
_withNotice(w, message, timeoutMs) ==
    Register(show(NewNoticer(w), Len(w.noticers) + 1, message, timeoutMs),
             Len(w.noticers) + 1, timeoutMs)

\* a timer callback runs: () => this.dispose(), or () => this._noticers.delete(n)
Fire(w, t) ==
    IF w.timers[t].fn = "dispose"
    THEN dispose([w EXCEPT !.timers[t].pending = FALSE], w.timers[t].of)
    ELSE [w EXCEPT !.timers[t].pending = FALSE, !.plugin = @ \ {w.timers[t].of}]

\* the clipboard: nothing written by the plugin, or the text it wrote
NotWritten == [written |-> FALSE, text |-> <<>>]
Written(text) == [written |-> TRUE, text |-> text]

\* const ok = await this._copyText(out); this._withNotice(ok ? ... : ..., ...)
CopyAndNotify(out, ok) ==
    /\ clipboard' = IF ok THEN Written(out) ELSE clipboard
    /\ Becomes(_withNotice(NoticerWorld,
                           IF ok THEN "Nested CSS copied" ELSE "Copy failed",
                           Milliseconds(IF ok THEN CopiedTimeout
                                        ELSE FailedTimeout)))

(***************************************************************************)
(* _highlight and the highlighter overlay.  An inline filter is the        *)
(* sequence of its filter functions: <<>> is the empty string.             *)
(***************************************************************************)
ContrastBoost == "contrast(1.25)"
ContrastFunctions == {"contrast(2)", ContrastBoost}

\* /contrast\(/.test(cur)
HasContrast(cur) == \E i \in 1..Len(cur) : cur[i] \in ContrastFunctions

\* a filter is a list of filter functions, or the keyword none, or empty
ValidFilter(v) == v = <<"none">> \/ \A i \in 1..Len(v) : v[i] # "none"

\* el.style.filter = v: a value that is no filter is ignored
AssignFilter(cur, v) == IF ValidFilter(v) THEN v ELSE cur

\* filter: el.style.filter; saved, __esc_prevFilter: the own property of the
\* element; pageFilter: the inline filter as the page last set it
NoStyle ==
    [filter |-> <<>>, saved |-> FALSE, __esc_prevFilter |-> <<>>,
     pageFilter |-> <<>>]

StyleOf(n) == IF n \in DOMAIN styles THEN styles[n] ELSE NoStyle

WithStyle(table, n, st) ==
    [m \in DOMAIN table \cup {n} |-> IF m = n THEN st ELSE table[m]]

\* a variant that saves the filter on every call
SavePrevAlways(st) ==
    [st EXCEPT !.saved = TRUE, !.__esc_prevFilter = st.filter]

\* if (!hasOwnProperty.call(el, "__esc_prevFilter")) el.__esc_prevFilter = el.style.filter || ""
SavePrev(st) ==
    IF st.saved THEN st
    ELSE [st EXCEPT !.saved = TRUE, !.__esc_prevFilter = st.filter]

\* if (!/contrast\(/.test(cur)) el.style.filter = (cur ? cur + " " : "") + "contrast(1.25)"
Boost(st) ==
    IF HasContrast(st.filter) THEN st
    ELSE [st EXCEPT !.filter = AssignFilter(@, Append(st.filter, ContrastBoost))]

\* el.style.filter = el.__esc_prevFilter; delete el.__esc_prevFilter
Restore(st) ==
    IF st.saved
    THEN [st EXCEPT !.filter = AssignFilter(@, st.__esc_prevFilter),
                    !.saved = FALSE, !.__esc_prevFilter = <<>>]
    ELSE st

NoHighlighter == [_hiDiv |-> "null", _hiStyle |-> FALSE, _hiTarget |-> null]

_ensureHighlighter(h) ==
    IF h._hiDiv # "null" THEN h
    ELSE [h EXCEPT !._hiDiv = "none", !._hiStyle = TRUE]

_placeHighlighter(h, el) ==
    [_ensureHighlighter(h) EXCEPT !._hiDiv = "block", !._hiTarget = el]

\* if (this._hiTarget === el) { if (this._hiDiv) display = "none"; this._hiTarget = null; }
HideHighlighter(h, el) ==
    IF h._hiTarget = el
    THEN [h EXCEPT !._hiDiv = IF @ = "null" THEN @ ELSE "none", !._hiTarget = null]
    ELSE h

_disposeHighlighter == NoHighlighter

\* _highlight(el, on): the styles and the highlighter after the call
_highlight(table, h, el, on) ==
    IF el = null \/ nodeType(el) # ELEMENT_NODE
    THEN [styles |-> table, highlighter |-> h]
    ELSE IF on
    THEN [styles |-> WithStyle(table, el,
                        Boost(SavePrev(IF el \in DOMAIN table THEN table[el]
                                       ELSE NoStyle))),
          highlighter |-> _placeHighlighter(h, el)]
    ELSE [styles |-> WithStyle(table, el,
                        Restore(IF el \in DOMAIN table THEN table[el]
                                ELSE NoStyle)),
          highlighter |-> HideHighlighter(h, el)]

\* chain.forEach((n) => this._highlight(n, false)); this._disposeHighlighter()
RECURSIVE HighlightOffEach(_, _, _, _)
HighlightOffEach(table, h, chain, i) ==
    IF i > Len(chain) THEN [styles |-> table, highlighter |-> h]
    ELSE HighlightOffEach(_highlight(table, h, chain[i], FALSE).styles,
                          _highlight(table, h, chain[i], FALSE).highlighter,
                          chain, i + 1)

clearAll(table, h, chain) ==
    [styles |-> HighlightOffEach(table, h, chain, 1).styles,
     highlighter |-> _disposeHighlighter]

(***************************************************************************)
(* State machine: the document grows, and the plugin's functions are       *)
(* called on it.                                                           *)
(***************************************************************************)
NoCall == [op |-> "none", a |-> null, b |-> null, opts |-> DefaultOpts,
           ret1 |-> <<>>, ret2 |-> <<>>, times |-> 0]

NoRun == [nodeCount |-> 0, truncated |-> FALSE, visited |-> 0, history |-> <<>>]

NoWalk == [fn |-> "none", cur |-> null, guard |-> 0, chain |-> <<>>,
           stop |-> null, pc |-> "idle"]

NoEvent == [type |-> "none", button |-> 0, ctrlKey |-> FALSE,
            metaKey |-> FALSE, shiftKey |-> FALSE, altKey |-> FALSE,
            target |-> null, defaultPrevented |-> FALSE,
            propagationStopped |-> FALSE]

Init ==
    /\ dom = InitDom
    /\ nativeEscape \in BOOLEAN
    /\ last = NoCall
    /\ run = NoRun
    /\ walk = NoWalk
    /\ event = NoEvent
    /\ menus = <<>>
    /\ clipboard = NotWritten
    /\ noticers = <<>>
    /\ _all = {}
    /\ _noticers = {}
    /\ notices = <<>>
    /\ timers = <<>>
    /\ styles = [n \in {} |-> NoStyle]
    /\ highlighter = NoHighlighter

\* the call returns to the event loop: its result and its locals are gone,
\* and before the next call the host has come to rest: the timers of the
\* notice have run (dispose, this._noticers.delete) and the clipboard is
\* left to whatever is copied next
Return ==
    /\ last.op # "none"
    /\ last' = NoCall
    /\ run' = NoRun
    /\ clipboard' = NotWritten
    /\ Becomes(AtRest)
    /\ UNCHANGED <<dom, nativeEscape, walk, event, menus, highlightVars>>

AppendSel ==
    /\ last.op = "none"
    /\ Len(dom) < MaxSelElems
    /\ \E p \in Nodes, k \in ElemKinds :
          /\ p >= parentElement(Len(dom))
          /\ dom' = appendChild(p, k)
    /\ last' = NoCall
    /\ UNCHANGED <<nativeEscape, run, walk, hostVars>>

CallSelectorFor ==
    /\ last.op = "none"
    /\ \E n \in Nodes, opts \in SelectorOpts :
          last' = [op |-> "selectorFor", a |-> n, b |-> null, opts |-> opts,
                   ret1 |-> _selectorFor(n, opts), ret2 |-> <<>>, times |-> 1]
    /\ UNCHANGED <<dom, nativeEscape, run, walk, hostVars>>

NextSel == AppendSel \/ CallSelectorFor \/ Return

SpecSel == Init /\ [][NextSel]_vars

AppendPath ==
    /\ last.op = "none"
    /\ Len(dom) < MaxPathElems
    /\ \E p \in Nodes, k \in ElemKinds :
          /\ p >= parentElement(Len(dom))
          /\ dom' = appendChild(p, k)
    /\ last' = NoCall
    /\ UNCHANGED <<nativeEscape, run, walk, hostVars>>

\* the callers pass { includeNthChild: false }; the option is left open here
PathCallOpts == {PathOpts(d) : d \in BOOLEAN}

CallPathsBetween ==
    /\ last.op = "none"
    /\ \E a \in Nodes \cup {null}, t \in Nodes \cup {null}, opts \in PathCallOpts :
          LET r == _buildPathsBetween(a, t, opts)
          IN last' = [op |-> "pathsBetween", a |-> a, b |-> t, opts |-> opts,
                      ret1 |-> r.descendant, ret2 |-> r.child, times |-> 1]
    /\ UNCHANGED <<dom, nativeEscape, run, walk, hostVars>>

CallPathsBetweenFirst ==
    /\ last.op = "none"
    /\ \E a \in Nodes \cup {null}, t \in Nodes \cup {null}, opts \in PathCallOpts :
          LET r == _buildPathsBetween_first(a, t, opts)
          IN last' = [op |-> "pathsBetweenFirst", a |-> a, b |-> t, opts |-> opts,
                      ret1 |-> r.descendant, ret2 |-> r.child, times |-> 1]
    /\ UNCHANGED <<dom, nativeEscape, run, walk, hostVars>>

CallBuildAncestry ==
    /\ last.op = "none"
    /\ \E node \in Nodes \cup {null, document}, stopAt \in Nodes :
          last' = [op |-> "buildAncestry", a |-> node, b |-> stopAt,
                   opts |-> DefaultOpts, ret1 |-> _buildAncestry(node, stopAt),
                   ret2 |-> <<>>, times |-> 1]
    /\ UNCHANGED <<dom, nativeEscape, run, walk, hostVars>>

NextPath ==
    \/ AppendPath
    \/ CallPathsBetween
    \/ CallPathsBetweenFirst
    \/ CallBuildAncestry
    \/ Return

SpecPath == Init /\ [][NextPath]_vars

AppendCss ==
    /\ last.op = "none"
    /\ Len(dom) < MaxCssElems
    /\ \E p \in Nodes, k \in ElemKinds :
          /\ p >= parentElement(Len(dom))
          /\ dom' = appendChild(p, k)
    /\ last' = NoCall
    /\ UNCHANGED <<nativeEscape, run, walk, hostVars>>

SmallMaxNodes == 3
ShallowDepth == 1

CssOpts ==
    {[DefaultOpts EXCEPT !.maxNodes = m, !.maxDepth = d] :
        m \in {SmallMaxNodes, DefaultMaxNodes}, d \in {Infinity, Finite(ShallowDepth)}}

CssReturns(root, opts, times, r) ==
    /\ last' = [op |-> "css", a |-> root, b |-> null, opts |-> opts,
                ret1 |-> r.out, ret2 |-> <<>>, times |-> times]
    /\ run' = r.st

\* a variant that copies and notifies whatever the root is
AfterCssAlways(root, out, ok) == CopyAndNotify(out, ok)

\* if (!root || root.nodeType !== 1) return "";  ...  copy, notice, return out
AfterCss(root, out, ok) ==
    IF root = null \/ nodeType(root) # ELEMENT_NODE
    THEN UNCHANGED <<clipboard, noticerVars>>
    ELSE CopyAndNotify(out, ok)

CallCss ==
    /\ last.op = "none"
    /\ \E root \in Nodes \cup {null, document}, opts \in CssOpts, ok \in BOOLEAN :
          /\ CssReturns(root, opts, 1, _css(root, opts, run))
          /\ AfterCss(root, last'.ret1, ok)
    /\ UNCHANGED <<dom, nativeEscape, walk, event, menus, highlightVars>>

\* the same element is serialized again, with the same options
CallCssAgain ==
    /\ last.op = "css"
    /\ last.times < MaxRepeat
    /\ CssReturns(last.a, last.opts, last.times + 1, _css(last.a, last.opts, run))
    /\ \E ok \in BOOLEAN : AfterCss(last.a, last'.ret1, ok)
    /\ UNCHANGED <<dom, nativeEscape, walk, event, menus, highlightVars>>

NextCss == AppendCss \/ CallCss \/ CallCssAgain \/ Return

SpecCss == Init /\ [][NextCss]_vars

(***************************************************************************)
(* The serializer over documents that hold SCRIPT elements, which are      *)
(* then taken out of the document (child.remove()).                        *)
(***************************************************************************)
MaxSkipElems == 5       \* elements in the document, skip-tag runs

SkipKinds == {3, ScriptKind}

HasSkipTag(n) == tagName(n) \in skipTags

Attached(n) == parentElement(n) # null

AppendSkip ==
    /\ last.op = "none"
    /\ Len(dom) < MaxSkipElems
    /\ \A n \in Nodes \ {1} : Attached(n)
    /\ \E p \in Nodes, k \in SkipKinds :
          /\ p >= parentElement(Len(dom))
          /\ dom' = appendChild(p, k)
    /\ last' = NoCall
    /\ UNCHANGED <<nativeEscape, run, walk, hostVars>>

CallCssSkip ==
    /\ last.op = "none"
    /\ \E root \in Nodes, opts \in CssOpts, ok \in BOOLEAN :
          /\ CssReturns(root, opts, 1, _css(root, opts, run))
          /\ AfterCss(root, last'.ret1, ok)
    /\ UNCHANGED <<dom, nativeEscape, walk, event, menus, highlightVars>>

\* every element with a skip tag is removed from its parent, its subtree
\* going with it
WithoutSkipped ==
    [n \in Nodes |->
        [dom[n] EXCEPT
            !.children = SelectSeq(@, LAMBDA c : ~HasSkipTag(c)),
            !.parentElement = IF HasSkipTag(n) THEN null ELSE @]]

RemoveSkipped ==
    /\ last.op = "css"
    /\ \E n \in Nodes : HasSkipTag(n) /\ Attached(n)
    /\ dom' = WithoutSkipped
    /\ UNCHANGED <<nativeEscape, last, run, walk, hostVars>>

NextSkip == AppendSkip \/ CallCssSkip \/ RemoveSkipped \/ CallCssAgain \/ Return

SpecSkip == Init /\ [][NextSkip]_vars

(***************************************************************************)
(* The serializer over wider documents of fewer kinds: siblings that are   *)
(* alike, apart or side by side.                                           *)
(***************************************************************************)
MaxGroupElems == 6      \* elements in the document, grouping runs

GroupKinds == {3, 4, 5}

\* the document grows below document.body
AppendGroup ==
    /\ last.op = "none"
    /\ Len(dom) < MaxGroupElems
    /\ \E p \in Nodes \ {1}, k \in GroupKinds :
          /\ p >= parentElement(Len(dom))
          /\ dom' = appendChild(p, k)
    /\ last' = NoCall
    /\ UNCHANGED <<nativeEscape, run, walk, hostVars>>

\* document.body is serialized
CallCssGroup ==
    /\ last.op = "none"
    /\ \E opts \in CssOpts, ok \in BOOLEAN :
          /\ CssReturns(body, opts, 1, _css(body, opts, run))
          /\ AfterCss(body, last'.ret1, ok)
    /\ UNCHANGED <<dom, nativeEscape, walk, event, menus, highlightVars>>

NextGroup == AppendGroup \/ CallCssGroup \/ Return

SpecGroup == Init /\ [][NextGroup]_vars

(***************************************************************************)
(* The serializer over documents that hold elements whose class is a       *)
(* brace.                                                                  *)
(***************************************************************************)
MaxBraceElems == 4      \* elements in the document, brace runs

BraceKinds == {3, BraceKind}

AppendBrace ==
    /\ last.op = "none"
    /\ Len(dom) < MaxBraceElems
    /\ \E p \in Nodes \ {1}, k \in BraceKinds :
          /\ p >= parentElement(Len(dom))
          /\ dom' = appendChild(p, k)
    /\ last' = NoCall
    /\ UNCHANGED <<nativeEscape, run, walk, hostVars>>

NextBrace == AppendBrace \/ CallCssGroup \/ Return

SpecBrace == Init /\ [][NextBrace]_vars

(***************************************************************************)
(* The serializer with a depth limit, over documents from which what lies  *)
(* below the limit is then taken out.                                      *)
(***************************************************************************)
MaxDepthElems == 5      \* elements in the document, depth-limit runs

AppendDepth ==
    /\ last.op = "none"
    /\ Len(dom) < MaxDepthElems
    /\ \A n \in Nodes \ {1} : Attached(n)
    /\ \E p \in Nodes \ {1}, k \in GroupKinds :
          /\ p >= parentElement(Len(dom))
          /\ dom' = appendChild(p, k)
    /\ last' = NoCall
    /\ UNCHANGED <<nativeEscape, run, walk, hostVars>>

\* how far n is below root; -1 when it is not in root's subtree
RECURSIVE DepthUnder(_, _)
DepthUnder(n, root) ==
    IF n = root THEN 0
    ELSE IF parentElement(n) = null THEN -1
    ELSE IF DepthUnder(parentElement(n), root) < 0 THEN -1
    ELSE DepthUnder(parentElement(n), root) + 1

Deeper(n, root, limit) == limit.finite /\ DepthUnder(n, root) > limit.n

\* every element of root's subtree below the limit is removed from its parent
WithoutDeeper(root, limit) ==
    [n \in Nodes |->
        [dom[n] EXCEPT
            !.children = SelectSeq(@, LAMBDA c : ~Deeper(c, root, limit)),
            !.parentElement =
                IF Deeper(n, root, limit) /\ DepthUnder(n, root) = limit.n + 1
                THEN null ELSE @]]

RemoveDeeper ==
    /\ last.op = "css"
    /\ last.times = 1
    /\ \E n \in Nodes : Deeper(n, last.a, last.opts.maxDepth)
    /\ dom' = WithoutDeeper(last.a, last.opts.maxDepth)
    /\ UNCHANGED <<nativeEscape, last, run, walk, hostVars>>

NextDepth == AppendDepth \/ CallCssSkip \/ RemoveDeeper \/ CallCssAgain \/ Return

SpecDepth == Init /\ [][NextDepth]_vars

(***************************************************************************)
(* The serializer with a ceiling that is as large as the document.         *)
(***************************************************************************)
FitMaxNodes == 4        \* maxNodes of the calls, fitting runs

CallCssFit ==
    /\ last.op = "none"
    /\ \E root \in Nodes, ok \in BOOLEAN :
          /\ CssReturns(root, [DefaultOpts EXCEPT !.maxNodes = FitMaxNodes], 1,
                        _css(root, [DefaultOpts EXCEPT !.maxNodes = FitMaxNodes], run))
          /\ AfterCss(root, last'.ret1, ok)
    /\ UNCHANGED <<dom, nativeEscape, walk, event, menus, highlightVars>>

NextFit == AppendCss \/ CallCssFit \/ Return

SpecFit == Init /\ [][NextFit]_vars

(***************************************************************************)
(* The upward loops of _buildAncestry and _buildPathsBetween, one          *)
(* iteration per step, over parent references that may be anything: the    *)
(* functions read nothing but nodeType and parentElement of what they are  *)
(* handed.                                                                 *)
(***************************************************************************)
\* a parent reference is set to another node, or to none
Relink ==
    /\ walk.pc = "idle"
    /\ \E n \in Nodes, p \in Nodes \cup {null} :
          /\ p # parentElement(n)
          /\ dom' = [dom EXCEPT ![n].parentElement = p]
    /\ UNCHANGED <<nativeEscape, last, run, walk, hostVars>>

\* const chain = []; let cur = node; let guard = 0;
Entered(fn, node, stop) ==
    [fn |-> fn, cur |-> node, guard |-> 0, chain |-> <<>>, stop |-> stop,
     pc |-> "loop"]

BuildAncestryStart ==
    /\ walk.pc = "idle"
    /\ \E node \in Nodes \cup {null, document}, stopAt \in Nodes :
          walk' = Entered("buildAncestry", node, stopAt)
    /\ UNCHANGED <<dom, nativeEscape, last, run, hostVars>>

UpwardWalkStart ==
    /\ walk.pc = "idle"
    /\ \E ancestorEl \in Nodes, targetEl \in Nodes \cup {document} :
          walk' = Entered("upwardWalk", targetEl, ancestorEl)
    /\ UNCHANGED <<dom, nativeEscape, last, run, hostVars>>

Ceiling(fn) == IF fn = "buildAncestry" THEN AncestryCeiling ELSE PathCeiling

\* a variant that lets one more iteration through: guard++ <= ceiling
WithinCeilingInclusive(guard, ceiling) == guard <= ceiling

\* guard++ < ceiling, given the value before the increment
WithinCeiling(guard, ceiling) == guard < ceiling

\* if (cur === stopAt || !cur.parentElement) break;   (_buildAncestry)
\* if (cur === ancestorEl) break;                     (_buildPathsBetween)
Breaks(w) ==
    \/ w.cur = w.stop
    \/ w.fn = "buildAncestry" /\ parentElement(w.cur) = null

\* the loop is left; _buildAncestry reverses the chain and returns it
Left(w) ==
    [w EXCEPT !.pc = "done",
              !.chain = IF w.fn = "buildAncestry" THEN reverse(@) ELSE @]

\* chain.push(cur); break, or cur = cur.parentElement
Body(w) ==
    IF Breaks(w) THEN Left([w EXCEPT !.chain = Append(@, w.cur)])
    ELSE [w EXCEPT !.chain = Append(@, w.cur), !.cur = parentElement(w.cur)]

\* while (cur && cur.nodeType === 1 && guard++ < ceiling) { ... }
WalkStep ==
    /\ walk.pc = "loop"
    /\ walk' = IF walk.cur = null \/ nodeType(walk.cur) # ELEMENT_NODE
               THEN Left(walk)
               ELSE IF WithinCeiling(walk.guard, Ceiling(walk.fn))
               THEN Body([walk EXCEPT !.guard = @ + 1])
               ELSE Left([walk EXCEPT !.guard = @ + 1])
    /\ UNCHANGED <<dom, nativeEscape, last, run, hostVars>>

\* the caller has taken the chain
WalkEnd ==
    /\ walk.pc = "done"
    /\ walk' = NoWalk
    /\ UNCHANGED <<dom, nativeEscape, last, run, hostVars>>

NextWalk == Relink \/ BuildAncestryStart \/ UpwardWalkStart \/ WalkStep \/ WalkEnd

SpecWalk == Init /\ [][NextWalk]_vars

\* the loop is always given its next iteration
SpecWalkFair == SpecWalk /\ WF_vars(WalkStep)

(***************************************************************************)
(* _onMouseDown: the dispatch on button and modifier keys.                 *)
(***************************************************************************)
MaxMouseElems == 3      \* elements in the document, mouse runs

AppendMouse ==
    /\ event.type = "none"
    /\ Len(dom) < MaxMouseElems
    /\ \E p \in Nodes, k \in ElemKinds :
          /\ p >= parentElement(Len(dom))
          /\ dom' = appendChild(p, k)
    /\ UNCHANGED <<nativeEscape, last, run, walk, hostVars>>

MIDDLE_BUTTON == 1

\* a variant that does not look at the Shift key
WantsCssMenuAnyShift(e) ==
    e.button = MIDDLE_BUTTON /\ (e.ctrlKey \/ e.metaKey) /\ ~e.altKey

\* isMiddle && (e.ctrlKey || e.metaKey) && !e.shiftKey && !e.altKey
WantsCssMenu(e) ==
    e.button = MIDDLE_BUTTON /\ (e.ctrlKey \/ e.metaKey) /\ ~e.shiftKey /\ ~e.altKey

\* isMiddle && (e.ctrlKey || e.metaKey) && e.shiftKey && !e.altKey
WantsPathMenu(e) ==
    e.button = MIDDLE_BUTTON /\ (e.ctrlKey \/ e.metaKey) /\ e.shiftKey /\ ~e.altKey

\* e.preventDefault(); e.stopPropagation();
Consumed(e) == [e EXCEPT !.defaultPrevented = TRUE, !.propagationStopped = TRUE]

\* (e.target && e.target.closest && e.target.closest("*")) || e.target || document.body
TargetOf(e) == IF e.target = null THEN body ELSE e.target

\* _openMenuForCss, _openMenuForPath: const chain = this._buildAncestry(targetEl,
\* document.body); if (!chain.length) return; ... menu.showAtMouseEvent(mouseEvt)
OpenMenu(shown, title, targetEl) ==
    IF Len(_buildAncestry(targetEl, body)) = 0 THEN shown
    ELSE Append(shown, [title |-> title,
                        items |-> _buildAncestry(targetEl, body),
                        originalTargetEl |-> targetEl])

\* the first if of _onMouseDown, then the second
AfterCssBranch(e, shown) ==
    IF WantsCssMenu(e)
    THEN [e |-> Consumed(e), shown |-> OpenMenu(shown, "CSS menu", TargetOf(e))]
    ELSE [e |-> e, shown |-> shown]

AfterPathBranch(r) ==
    IF WantsPathMenu(r.e)
    THEN [e |-> Consumed(r.e),
          shown |-> OpenMenu(r.shown, "Path menu", TargetOf(r.e))]
    ELSE r

\* the events a pointing device produces: the target is an element
MouseDownEvents ==
    {[type |-> "mousedown", button |-> b, ctrlKey |-> c, metaKey |-> m,
      shiftKey |-> s, altKey |-> a, target |-> t, defaultPrevented |-> FALSE,
      propagationStopped |-> FALSE] :
        b \in 0..2, c \in BOOLEAN, m \in BOOLEAN, s \in BOOLEAN, a \in BOOLEAN,
        t \in Nodes}

Dispatched(r) ==
    /\ event' = r.e
    /\ menus' = r.shown

_onMouseDown ==
    /\ event.type = "none"
    /\ \E e \in MouseDownEvents : Dispatched(AfterPathBranch(AfterCssBranch(e, menus)))
    /\ UNCHANGED <<dom, nativeEscape, last, run, walk, clipboard, noticerVars, highlightVars>>

\* the menu is dismissed without a choice, the event is gone
MenuClosed ==
    /\ event.type = "mousedown"
    /\ event' = NoEvent
    /\ menus' = <<>>
    /\ UNCHANGED <<dom, nativeEscape, last, run, walk, clipboard, noticerVars, highlightVars>>

NextMouse == AppendMouse \/ _onMouseDown \/ MenuClosed

SpecMouse == Init /\ [][NextMouse]_vars

(***************************************************************************)
(* Noticers at work: constructed, shown, disposed, their timers running.   *)
(***************************************************************************)
MaxNoticers == 2        \* Noticer instances constructed
MaxNotices == 3         \* Notices created

Timeouts ==
    {NotANumber, Milliseconds(0), HalfMillisecond, Milliseconds(CopiedTimeout),
     Milliseconds(-1)}

Messages == {"Copy failed"}

Did(op, i, timeout) ==
    last' = [NoCall EXCEPT !.op = op, !.a = i, !.opts = timeout, !.times = 1]

Construct ==
    /\ Len(noticers) < MaxNoticers
    /\ Becomes(NewNoticer(NoticerWorld))
    /\ Did("new", Len(noticers) + 1, NotANumber)
    /\ UNCHANGED <<dom, nativeEscape, run, walk, event, menus, clipboard, highlightVars>>

Show ==
    /\ Len(notices) < MaxNotices
    /\ \E i \in 1..Len(noticers), message \in Messages, timeout \in Timeouts :
          /\ Becomes(show(NoticerWorld, i, message, timeout))
          /\ Did("show", i, timeout)
    /\ UNCHANGED <<dom, nativeEscape, run, walk, event, menus, clipboard, highlightVars>>

Dispose ==
    /\ \E i \in 1..Len(noticers) :
          /\ Becomes(dispose(NoticerWorld, i))
          /\ Did("dispose", i, NotANumber)
    /\ UNCHANGED <<dom, nativeEscape, run, walk, event, menus, clipboard, highlightVars>>

WithNotice ==
    /\ Len(noticers) < MaxNoticers
    /\ Len(notices) < MaxNotices
    /\ \E message \in Messages, timeoutMs \in Timeouts :
          /\ Becomes(_withNotice(NoticerWorld, message, timeoutMs))
          /\ Did("withNotice", Len(noticers) + 1, timeoutMs)
    /\ UNCHANGED <<dom, nativeEscape, run, walk, event, menus, clipboard, highlightVars>>

TimerFires ==
    /\ \E t \in 1..Len(timers) :
          /\ timers[t].pending
          /\ Becomes(Fire(NoticerWorld, t))
          /\ Did("timer", timers[t].of, NotANumber)
    /\ UNCHANGED <<dom, nativeEscape, run, walk, event, menus, clipboard, highlightVars>>

\* onunload: try { Noticer.disposeAll(); } catch { }  this._disposeHighlighter();
DisposeAll ==
    /\ last.op # "disposeAll"
    /\ Becomes(disposeAll(NoticerWorld))
    /\ Did("disposeAll", null, NotANumber)
    /\ highlighter' = _disposeHighlighter
    /\ UNCHANGED <<dom, nativeEscape, run, walk, event, menus, clipboard, styles>>

NextNotice ==
    Construct \/ Show \/ Dispose \/ WithNotice \/ TimerFires \/ DisposeAll

SpecNotice == Init /\ [][NextNotice]_vars

(***************************************************************************)
(* The menu items are hovered: _highlight on and off, on the elements of   *)
(* the document, whose inline filters the page sets between hovers.        *)
(***************************************************************************)
PageFilters == {<<>>, <<"blur(2px)">>, <<"contrast(2)">>, <<"none">>}

\* the page sets el.style.filter of an element that is not highlighted
SetInlineFilter ==
    /\ \E el \in Nodes, v \in PageFilters :
          /\ ~StyleOf(el).saved
          /\ StyleOf(el).filter # v
          /\ styles' = WithStyle(styles, el,
                          [StyleOf(el) EXCEPT !.filter = v, !.pageFilter = v])
    /\ last' = NoCall
    /\ UNCHANGED <<dom, nativeEscape, run, walk, event, menus, clipboard,
                   noticerVars, highlighter>>

\* mouseenter and mouseleave of a menu item; ret1 is the filter the call found
Highlight ==
    /\ \E el \in Nodes \cup {null, document}, on \in BOOLEAN :
          /\ styles' = _highlight(styles, highlighter, el, on).styles
          /\ highlighter' = _highlight(styles, highlighter, el, on).highlighter
          /\ last' = [NoCall EXCEPT
                        !.op = IF on THEN "highlightOn" ELSE "highlightOff",
                        !.a = el,
                        !.ret1 = IF el \in Nodes THEN StyleOf(el).filter ELSE <<>>,
                        !.times = 1]
    /\ UNCHANGED <<dom, nativeEscape, run, walk, event, menus, clipboard,
                   noticerVars>>

\* the menu of a target goes away
ClearAll ==
    /\ last.op # "clearAll"
    /\ \E targetEl \in Nodes :
          /\ styles' = clearAll(styles, highlighter,
                                _buildAncestry(targetEl, body)).styles
          /\ highlighter' = clearAll(styles, highlighter,
                                     _buildAncestry(targetEl, body)).highlighter
          /\ last' = [NoCall EXCEPT !.op = "clearAll", !.a = targetEl, !.times = 1]
    /\ UNCHANGED <<dom, nativeEscape, run, walk, event, menus, clipboard,
                   noticerVars>>

NextHighlight == SetInlineFilter \/ Highlight \/ ClearAll

SpecHighlight == Init /\ [][NextHighlight]_vars

(***************************************************************************)
(* Selector Builder properties (checked under SpecSel).                    *)
(***************************************************************************)
EndsWith(s, suffix) ==
    /\ Len(s) >= Len(suffix)
    /\ SubSeq(s, Len(s) - Len(suffix) + 1, Len(s)) = suffix

\* number of element siblings before n, read off the parent's child list
PrecedingSiblings(n) ==
    IF parentElement(n) = null THEN 0
    ELSE Cardinality({j \in 1..Len(children(parentElement(n))) :
            \E i \in 1..Len(children(parentElement(n))) :
                children(parentElement(n))[i] = n /\ j < i})

RECURSIVE DotPrefixedClasses(_, _)
DotPrefixedClasses(node, i) ==
    IF i > Len(classList(node)) THEN <<>>
    ELSE <<".">> \o _cssEscape(classList(node)[i]) \o DotPrefixedClasses(node, i + 1)

SelectorCalled == last.op = "selectorFor"

\* C7: for an element with a non-empty id, selectorFor with useIds returns
\* "#" followed by the escaped id, whatever the classes, the tag and the
\* other options are.
Thm_C7_IdTakesPrecedence ==
    (SelectorCalled /\ last.opts.useIds /\ Len(idOf(last.a)) > 0)
        => last.ret1 = <<"#">> \o _cssEscape(idOf(last.a))

Wit_C7_IdWithClassesAndNth ==
    /\ SelectorCalled /\ last.opts.useIds /\ Len(idOf(last.a)) > 0
    /\ last.opts.useClasses /\ Len(classList(last.a)) > 0
    /\ last.opts.includeNthChild /\ ~last.opts.includeTagIfNoClasses
    /\ Head(last.ret1) = "#" /\ Len(last.ret1) > Len(idOf(last.a)) + 1

\* C8: for an element without an id (or with useIds unset) and with classes,
\* selectorFor with useClasses returns every class, in declared order, each
\* escaped and preceded by a dot.
Thm_C8_AllClassesInOrder ==
    (SelectorCalled /\ last.opts.useClasses /\ Len(classList(last.a)) > 0
       /\ (~last.opts.useIds \/ Len(idOf(last.a)) = 0))
        => last.ret1 = DotPrefixedClasses(last.a, 1)

Wit_C8_TwoEscapedClasses ==
    /\ SelectorCalled /\ last.opts.useClasses /\ last.opts.useIds
    /\ Len(idOf(last.a)) = 0 /\ Len(classList(last.a)) = 2
    /\ Head(last.ret1) = "." /\ \E i \in 1..Len(last.ret1) : last.ret1[i] = "\\"

\* C9 (as claimed): with includeNthChild the token ends with :nth-child(k),
\* k = 1 + the number of preceding sibling elements, whichever rule produced
\* the base token.
Claim_C9_NthChildOnEveryRule ==
    (SelectorCalled /\ last.opts.includeNthChild /\ parentElement(last.a) # null)
        => EndsWith(last.ret1,
                    <<":","n","t","h","-","c","h","i","l","d","(">>
                    \o toString10(1 + PrecedingSiblings(last.a)) \o <<")">>)

(***************************************************************************)
(* Path Synthesizer properties (checked under SpecPath).                   *)
(***************************************************************************)
RECURSIVE nthAncestor(_, _)
nthAncestor(n, j) ==
    IF j = 0 \/ n = null THEN n ELSE nthAncestor(parentElement(n), j - 1)

\* ancestor is target or a proper ancestor of it
ValidPair(ancestor, target) ==
    /\ ancestor # null /\ target # null
    /\ \E d \in 0..Len(dom) : nthAncestor(target, d) = ancestor

Distance(ancestor, target) ==
    CHOOSE d \in 0..Len(dom) : nthAncestor(target, d) = ancestor

\* the tokens of the parent chain from ancestor (first) down to target (last)
ChainTokens(ancestor, target, opts) ==
    [i \in 1..(Distance(ancestor, target) + 1) |->
        _selectorFor(nthAncestor(target, Distance(ancestor, target) + 1 - i), opts)]

\* String.prototype.split(sep).length
RECURSIVE SplitCount(_, _, _)
SplitCount(s, sep, i) ==
    IF i + Len(sep) - 1 > Len(s) THEN 1
    ELSE IF SubSeq(s, i, i + Len(sep) - 1) = sep
         THEN 1 + SplitCount(s, sep, i + Len(sep))
         ELSE SplitCount(s, sep, i + 1)

SpacesIn(s) == Cardinality({i \in 1..Len(s) : s[i] = " "})

RECURSIVE SpacesInAll(_)
SpacesInAll(toks) ==
    IF Len(toks) = 0 THEN 0 ELSE SpacesIn(Head(toks)) + SpacesInAll(Tail(toks))

RECURSIVE Concat(_, _)
Concat(toks, sep) ==
    IF Len(toks) = 0 THEN <<>>
    ELSE IF Len(toks) = 1 THEN Head(toks)
    ELSE Head(toks) \o sep \o Concat(Tail(toks), sep)

PathCalled == last.op \in {"pathsBetween", "pathsBetweenFirst"}

\* C4 (as claimed): for a valid ancestor/target pair, splitting descendant on
\* a space and child on " > " gives the same number of pieces, whatever the
\* ids and class names on the chain.
Claim_C4_SplitCountsMatch ==
    (PathCalled /\ ValidPair(last.a, last.b))
        => SplitCount(last.ret1, <<" ">>, 1)
             = SplitCount(last.ret2, <<" ", ">", " ">>, 1)

\* C4 (amended): child splits on " > " into one piece per element of the
\* chain, and descendant splits on a space into that number of pieces plus
\* one for every space inside the tokens themselves (the escaper writes one
\* after each hex escape); the two counts agree when no token holds a space.
Thm_C4_SplitCountsUpToEscapes ==
    (PathCalled /\ ValidPair(last.a, last.b))
        => LET toks == ChainTokens(last.a, last.b, last.opts)
           IN /\ SplitCount(last.ret2, <<" ", ">", " ">>, 1) = Len(toks)
              /\ SplitCount(last.ret1, <<" ">>, 1) = Len(toks) + SpacesInAll(toks)
              /\ (SpacesInAll(toks) = 0
                    => SplitCount(last.ret1, <<" ">>, 1)
                         = SplitCount(last.ret2, <<" ", ">", " ">>, 1))

Wit_C4_EscapedTokenOnChain ==
    /\ PathCalled /\ ValidPair(last.a, last.b)
    /\ Distance(last.a, last.b) >= 2
    /\ SpacesInAll(ChainTokens(last.a, last.b, last.opts)) > 0
    /\ SplitCount(last.ret1, <<" ">>, 1) > SplitCount(last.ret2, <<" ", ">", " ">>, 1)

\* C5: for ancestor = target or a proper ancestor at distance d, both strings
\* are built from the same d+1 tokens, one per element of the parent chain,
\* ancestor first: joined by a space and by " > "; for ancestor = target the
\* pair is the single token of target, twice.
Thm_C5_SameTokensBothNotations ==
    (PathCalled /\ ValidPair(last.a, last.b))
        => LET toks == ChainTokens(last.a, last.b, last.opts)
           IN /\ Len(toks) = Distance(last.a, last.b) + 1
              /\ last.ret1 = Concat(toks, <<" ">>)
              /\ last.ret2 = Concat(toks, <<" ", ">", " ">>)
              /\ (last.a = last.b
                    => /\ last.ret1 = last.ret2
                       /\ last.ret1 = _selectorFor(last.b, last.opts))

Wit_C5_ProperAncestor ==
    /\ last.op = "pathsBetween" /\ ValidPair(last.a, last.b)
    /\ Distance(last.a, last.b) = 2 /\ last.a # 1
    /\ last.ret1 # last.ret2
    /\ _selectorFor(last.a, last.opts) # _selectorFor(last.b, last.opts)

\* C6 (as claimed): when ancestor is neither reached on the upward walk nor
\* found in the rebuilt body-to-target ancestry, the pair is exactly one
\* token: that of target, or (other variant) that of ancestor.
Claim_C6_SingleTokenFallback ==
    (PathCalled /\ last.a # null /\ last.b # null
       /\ ~ValidPair(last.a, last.b)
       /\ indexOf(_buildAncestry(last.b, body), last.a) < 0)
        => /\ last.ret1 = last.ret2
           /\ \/ last.ret1 = _selectorFor(last.b, last.opts)
              \/ last.ret1 = _selectorFor(last.a, last.opts)

(***************************************************************************)
(* Subtree Serializer properties (checked under SpecCss).                  *)
(***************************************************************************)
CssCalled ==
    last.op = "css" /\ last.a # null /\ nodeType(last.a) = ELEMENT_NODE

StartsWith(s, prefix) ==
    Len(s) >= Len(prefix) /\ SubSeq(s, 1, Len(prefix)) = prefix

ContentStart == <<"c","o","n","t","e","n","t",":"," ","\"">>

\* the positions at which a line of the text starts
LineStarts(out) ==
    {p \in 1..Len(out) : p = 1 \/ out[p - 1] = "\n"}

\* the line starting at p opens a block one level below the root block:
\* one indent unit, then neither a content line nor a closing brace
IsChildOpenerAt(out, p) ==
    /\ Len(out) >= p + 2
    /\ out[p] = " " /\ out[p + 1] = " "
    /\ out[p + 2] \notin {" ", "}"}
    /\ ~StartsWith(SubSeq(out, p + 2, Len(out)), ContentStart)

ChildOpeners(out) == {p \in LineStarts(out) : IsChildOpenerAt(out, p)}

NotSkippedChildren(n) == SelectSeq(children(n), LAMBDA c : ~Skipped(c))

\* same selector token and, recursively, the same children structures
RECURSIVE SameStructure(_, _, _)
SameStructure(x, y, opts) ==
    /\ _selectorFor(x, opts) = _selectorFor(y, opts)
    /\ Len(NotSkippedChildren(x)) = Len(NotSkippedChildren(y))
    /\ \A i \in 1..Len(NotSkippedChildren(x)) :
          SameStructure(NotSkippedChildren(x)[i], NotSkippedChildren(y)[i], opts)

\* the children of the root that the call retained
RetainedChildren ==
    FinalScan(last.a, 1, 0, <<_selectorFor(last.a, last.opts)>>, last.opts,
              NoRun, <<>>, <<>>).items

AllAlike ==
    /\ Len(RetainedChildren) > 1
    /\ \A i, j \in 1..Len(RetainedChildren) :
          SameStructure(RetainedChildren[i].child, RetainedChildren[j].child,
                        last.opts)

RECURSIVE PrimaryTextLines(_, _)
PrimaryTextLines(items, i) ==
    IF i > Len(items) THEN <<>>
    ELSE <<" ", " ", " ", " ">> \o ContentStart
         \o primaryTextFor(items[i].child) \o <<"\"", ";", "\n">>
         \o PrimaryTextLines(items, i + 1)

\* the text up to and including the N text lines of the collapsed child block
GroupedPrefix ==
    LET rootSel == _selectorFor(last.a, last.opts)
        childSel == RetainedChildren[1].sel
        rootTexts == textContentsFor(last.a)
    IN rootSel \o <<" ", "{", "\n">>
       \o <<" ", " ">> \o ContentStart \o rootSel \o <<"\"", ";", "\n">>
       \o <<" ", " ">> \o ContentStart \o rootSel \o <<"\"", ";", "\n">>
       \o (IF Len(rootTexts) = 0
           THEN <<" ", " ">> \o ContentStart \o <<"\"", ";", "\n">>
           ELSE TextLines(0, rootTexts))
       \o <<" ", " ">> \o childSel
       \o <<" ", "{", " ", "/", "*", "*", " ">>
       \o toString10(Len(RetainedChildren))
       \o <<" ", "t", "i", "m", "e", "s", " ", "*", "/", "\n">>
       \o <<" ", " ", " ", " ">> \o ContentStart
       \o rootSel \o <<" ">> \o childSel \o <<"\"", ";", "\n">>
       \o <<" ", " ", " ", " ">> \o ContentStart
       \o rootSel \o <<" ", ">", " ">> \o childSel \o <<"\"", ";", "\n">>
       \o PrimaryTextLines(RetainedChildren, 1)

\* C1: when the N > 1 retained children of the serialized parent are
\* structurally identical, the output holds exactly one child block for
\* them, its opening line annotated "N times", and that block carries
\* exactly N text lines: the primary texts of the children in sibling order.
Thm_C1_OneBlockNTexts ==
    (CssCalled /\ AllAlike)
        => /\ StartsWith(last.ret1, GroupedPrefix)
           /\ ~StartsWith(SubSeq(last.ret1, Len(GroupedPrefix) + 1, Len(last.ret1)),
                          <<" ", " ", " ", " ">> \o ContentStart)
           /\ Cardinality(ChildOpeners(last.ret1)) = 1

Wit_C1_TwoAlikeDifferentTexts ==
    /\ CssCalled /\ AllAlike
    /\ primaryTextFor(RetainedChildren[1].child)
         # primaryTextFor(RetainedChildren[2].child)
    /\ Cardinality(ChildOpeners(last.ret1)) = 1

RECURSIVE SubtreeSize(_)
RECURSIVE SubtreeSizeOfAll(_)
SubtreeSize(n) == 1 + SubtreeSizeOfAll(children(n))
SubtreeSizeOfAll(ns) ==
    IF Len(ns) = 0 THEN 0 ELSE SubtreeSize(Head(ns)) + SubtreeSizeOfAll(Tail(ns))

\* C2 (as claimed): when the serialized subtree has more nodes than maxNodes,
\* the returned text ends with the truncation marker line.
Claim_C2_MarkerWhenMoreNodes ==
    (CssCalled /\ ~last.opts.maxDepth.finite
       /\ SubtreeSize(last.a) > last.opts.maxNodes)
        => EndsWith(last.ret1, TruncationMarker)

\* C3: in one call, the canonical renders that get past the depth and count
\* checks never number more than maxNodes, and once the counter has exceeded
\* maxNodes the truncation flag is set and stays set to the end of the call.
Thm_C3_VisitsBounded ==
    CssCalled
        => /\ run.visited <= last.opts.maxNodes
           /\ \A i \in 1..Len(run.history) :
                 /\ run.history[i].visited <= last.opts.maxNodes
                 /\ (run.history[i].nodeCount > last.opts.maxNodes
                       => run.history[i].truncated)
                 /\ (run.history[i].truncated
                       => /\ run.truncated
                          /\ \A j \in i..Len(run.history) :
                                run.history[j].truncated)

Wit_C3_CeilingReached ==
    /\ CssCalled /\ run.truncated
    /\ run.visited = last.opts.maxNodes
    /\ run.nodeCount > last.opts.maxNodes
    /\ Len(run.history) > run.visited

\* C10: serializing the same unchanged subtree again with the same options
\* returns the same text, and the counters end where they ended before.
Thm_C10_SameTextAgain ==
    [][(last.op = "css" /\ last'.op = "css" /\ last'.times = last.times + 1)
         => /\ last'.ret1 = last.ret1
            /\ run' = run]_vars

Wit_C10_SecondCallTruncated ==
    /\ CssCalled /\ last.times = 2
    /\ run.truncated /\ EndsWith(last.ret1, TruncationMarker)

(***************************************************************************)
(* Ancestry Walker properties.                                             *)
(***************************************************************************)
\* the parent references from n lead back to a node already passed: the
\* chain never gets to a parentless top
RECURSIVE Cycles(_, _)
Cycles(n, seen) ==
    IF n = null THEN FALSE
    ELSE IF n \in seen THEN TRUE
    ELSE Cycles(parentElement(n), seen \cup {n})

AncestryCalled == last.op = "buildAncestry"

IsElement(n) == n # null /\ nodeType(n) = ELEMENT_NODE

\* every element of the chain is the parent of the next, and the last is node
LinkedDownTo(chain, node) ==
    /\ Len(chain) > 0
    /\ chain[Len(chain)] = node
    /\ \A i \in 1..(Len(chain) - 1) : parentElement(chain[i + 1]) = chain[i]

\* C12: for an element whose parent chain holds stopBoundary, buildAncestry
\* returns the chain from stopBoundary (first) down to node (last), every
\* element the parent of the next; when stopBoundary is not on the chain,
\* the chain starts at the parentless top element instead; the result is
\* empty only when node is not an element.
Thm_C12_BoundaryFirstChain ==
    AncestryCalled
        => /\ (IsElement(last.a) /\ ValidPair(last.b, last.a))
                 => /\ LinkedDownTo(last.ret1, last.a)
                    /\ last.ret1[1] = last.b
                    /\ Len(last.ret1) = Distance(last.b, last.a) + 1
           /\ (IsElement(last.a) /\ ~ValidPair(last.b, last.a))
                 => /\ LinkedDownTo(last.ret1, last.a)
                    /\ parentElement(last.ret1[1]) = null
           /\ (Len(last.ret1) = 0 <=> ~IsElement(last.a))

Wit_C12_BodyDownToGrandchild ==
    /\ AncestryCalled /\ last.b = body /\ IsElement(last.a)
    /\ Len(last.ret1) = 3 /\ last.ret1[1] = body /\ last.ret1[3] = last.a

Walking == walk.pc \in {"loop", "done"}

WalkBounded ==
    Walking
        => /\ walk.guard <= Ceiling(walk.fn) + 1
           /\ Len(walk.chain) <= Ceiling(walk.fn)
           /\ Len(walk.chain) <= walk.guard

MenusTitled(title) == {i \in 1..Len(menus) : menus[i].title = title}

Held(e) ==
    (IF e.ctrlKey THEN {"Ctrl"} ELSE {}) \cup (IF e.metaKey THEN {"Meta"} ELSE {})
    \cup (IF e.shiftKey THEN {"Shift"} ELSE {}) \cup (IF e.altKey THEN {"Alt"} ELSE {})

CssChords == {{"Ctrl"}, {"Meta"}, {"Ctrl", "Meta"}}
PathChords == {{"Ctrl", "Shift"}, {"Meta", "Shift"}, {"Ctrl", "Meta", "Shift"}}

Active == {i \in 1..Len(noticers) : isActive(NoticerWorld, i)}

ArmedFor(i) ==
    {t \in 1..Len(timers) :
        timers[t].pending /\ timers[t].fn = "dispose" /\ timers[t].of = i}

\* C14 (as claimed): whatever Noticers were constructed, shown and disposed,
\* every Noticer that is active is among getNoticers(), and after
\* disposeAll() no Noticer is active and no Noticer timer is pending.
Claim_C14_ActiveNoticersListed ==
    /\ Active \subseteq getNoticers(NoticerWorld)
    /\ last.op = "disposeAll"
         => /\ Active = {}
            /\ \A i \in 1..Len(noticers) : ArmedFor(i) = {}

PositiveTimeout(timeout) == timeout.finite /\ timeout.halves > 0

\* C15 (as claimed): show() with a positive timeout, or with one that is not
\* a finite number, leaves the Notice with a timer that will dispose of it;
\* with timeout 0 no timer is armed.
Claim_C15_PositiveTimeoutArmsTimer ==
    last.op = "show"
        => /\ isActive(NoticerWorld, last.a)
           /\ (PositiveTimeout(last.opts) \/ ~last.opts.finite)
                 => /\ noticers[last.a]._t \in ArmedFor(last.a)
                    /\ Cardinality(ArmedFor(last.a)) = 1
           /\ last.opts = Milliseconds(0)
                 => noticers[last.a]._t = null /\ ArmedFor(last.a) = {}

(***************************************************************************)
(* The serializer and its host (checked under SpecCss).                    *)
(***************************************************************************)
InvalidRoot(root) == root = null \/ nodeType(root) # ELEMENT_NODE

HostUntouched ==
    /\ clipboard = NotWritten
    /\ noticers = <<>> /\ notices = <<>> /\ timers = <<>>
    /\ _all = {} /\ _noticers = {}

\* C17: when _css is called with a root that is absent or not an element,
\* it returns the empty string, the clipboard is not written and no notice
\* is shown.
Thm_C17_InvalidRootIsSilent ==
    (last.op = "css" /\ InvalidRoot(last.a))
        => last.ret1 = <<>> /\ HostUntouched

Wit_C17_DocumentAsRoot ==
    /\ last.op = "css" /\ last.a = document
    /\ last.ret1 = <<>> /\ HostUntouched

(***************************************************************************)
(* Skip-tag properties (checked under SpecSkip).                           *)
(***************************************************************************)
Removed == {n \in Nodes \ {1} : HasSkipTag(n) /\ ~Attached(n)}

\* C16: when every element with a skip tag has been removed from the
\* document with its subtree and the same call is made again, the text
\* returned and the counters (nodeCount, truncated, and every value they
\* went through) are what they were with those elements in place: such
\* elements get no block, are not counted, and take no part in the
\* grouping of siblings.
Thm_C16_SkippedAsIfAbsent ==
    [][(/\ last.op = "css" /\ last'.op = "css"
        /\ last.times = 1 /\ last'.times = 2
        /\ Removed # {})
         => /\ last'.ret1 = last.ret1
            /\ run' = run]_vars

Wit_C16_ScriptWithChildBesideAlike ==
    /\ CssCalled /\ last.a = body /\ last.times = 2
    /\ last.opts.maxNodes = SmallMaxNodes /\ ~run.truncated
    /\ \E s \in Removed :
          /\ Len(children(s)) > 0
          /\ \E a \in Nodes : Attached(a) /\ parentElement(a) = body
                              /\ classList(a) = classList(s)
    /\ ChildOpeners(last.ret1) # {}

(***************************************************************************)
(* Sibling grouping properties (checked under SpecGroup).                  *)
(***************************************************************************)
\* what the children loop of renderFinal makes of the children of the root
RootScan ==
    FinalScan(last.a, 1, 0, <<_selectorFor(last.a, last.opts)>>, last.opts,
              NoRun, <<>>, <<>>)

RootGroups == GroupByCanon(RootScan.canon, 1, <<>>)

InGroup(groups, g) == {groups[g].indexList[k] : k \in 1..Len(groups[g].indexList)}

\* same selector token and, as far down as maxDepth lets the walk go, the
\* same sequence of children structures; x and y are at the given depth
RECURSIVE Alike(_, _, _, _)
Alike(x, y, depth, opts) ==
    /\ _selectorFor(x, opts) = _selectorFor(y, opts)
    /\ \/ Exceeds(depth + 1, opts.maxDepth)
       \/ /\ Len(NotSkippedChildren(x)) = Len(NotSkippedChildren(y))
          /\ \A i \in 1..Len(NotSkippedChildren(x)) :
                Alike(NotSkippedChildren(x)[i], NotSkippedChildren(y)[i],
                      depth + 1, opts)

AlikeClasses(items, opts) ==
    {{j \in 1..Len(items) : Alike(items[i].child, items[j].child, 1, opts)} :
        i \in 1..Len(items)}

GroupedAsAlike(items, groups, out, opts) ==
    /\ \A i, j \in 1..Len(items) :
          (\E g \in 1..Len(groups) : {i, j} \subseteq InGroup(groups, g))
              <=> Alike(items[i].child, items[j].child, 1, opts)
    /\ Cardinality(ChildOpeners(out)) = Cardinality(AlikeClasses(items, opts))

\* C18: two retained children of the serialized element are in the same
\* group exactly when they have the same selector token and, recursively,
\* the same sequence of retained children structures, whatever their texts
\* and whether or not they are adjacent; the output holds one child block
\* per class of alike children.
Thm_C18_GroupedIffAlike ==
    CssCalled => GroupedAsAlike(RootScan.items, RootGroups, last.ret1, last.opts)

Wit_C18_AlikeApartDifferentTexts ==
    /\ CssCalled
    /\ \E g \in 1..Len(RootGroups) :
          /\ Len(RootGroups[g].indexList) = 2
          /\ RootGroups[g].indexList[2] > RootGroups[g].indexList[1] + 1
          /\ primaryTextFor(RootScan.items[RootGroups[g].indexList[1]].child)
               # primaryTextFor(RootScan.items[RootGroups[g].indexList[2]].child)
    /\ Cardinality(ChildOpeners(last.ret1)) = 2

\* the retained children that are alike to the i-th, in document order
AlikeTo(items, i, opts) ==
    SelectSeq([j \in 1..Len(items) |-> j],
              LAMBDA j : Alike(items[i].child, items[j].child, 1, opts))

\* the block that stands for the i-th retained child and those alike to it,
\* rendered from the i-th
BlockFrom(items, i, rootSel, opts) ==
    Annotate(renderFinal(items[i].child, 1, <<rootSel, items[i].sel>>,
                         OverrideTexts(items, AlikeTo(items, i, opts)),
                         opts, NoRun).block,
             Len(AlikeTo(items, i, opts)))

\* one block per class of alike children, at the place of its first member
RECURSIVE BlocksInFirstOccurrenceOrder(_, _, _, _)
BlocksInFirstOccurrenceOrder(items, i, rootSel, opts) ==
    IF i > Len(items) THEN <<>>
    ELSE (IF AlikeTo(items, i, opts)[1] = i
          THEN BlockFrom(items, i, rootSel, opts)
          ELSE <<>>)
         \o BlocksInFirstOccurrenceOrder(items, i + 1, rootSel, opts)

RootBlock(root, items, rootSel, opts) ==
    OpenerLine(0, rootSel)
    \o PathLines(0, <<rootSel>>)
    \o TextLinesOrEmpty(0, textContentsFor(root))
    \o BlocksInFirstOccurrenceOrder(items, 1, rootSel, opts)
    \o CloserLine(0)

\* C19: in the block of the serialized element the child blocks stand in
\* the order of the first members of their groups, and each is the block of
\* the group's first member (checked on the calls that were not truncated).
Thm_C19_FirstOccurrenceOrder ==
    (CssCalled /\ ~run.truncated)
        => last.ret1 = RootBlock(last.a, RootScan.items,
                                 _selectorFor(last.a, last.opts), last.opts)

\* two alike children whose own children differ in text
Wit_C19_RepresentativeShowsItsSubtree ==
    /\ CssCalled /\ ~run.truncated /\ last.opts.maxDepth = Infinity
    /\ \E g \in 1..Len(RootGroups) :
          /\ Len(RootGroups[g].indexList) = 2
          /\ LET a == RootScan.items[RootGroups[g].indexList[1]].child
                 b == RootScan.items[RootGroups[g].indexList[2]].child
             IN /\ Len(children(a)) = 1
                /\ textNodes(children(a)[1]) # textNodes(children(b)[1])

(***************************************************************************)
(* Count marker properties (checked under SpecBrace).                      *)
(***************************************************************************)
\* the k-th line that opens a child block of the root block
NthChildOpener(out, k) ==
    CHOOSE p \in ChildOpeners(out) :
        Cardinality({q \in ChildOpeners(out) : q < p}) = k - 1

LineAt(out, p) ==
    SubSeq(out, p, CHOOSE e \in p..Len(out) :
                      out[e] = "\n" /\ \A i \in p..(e - 1) : out[i] # "\n")

\* the selector, the opening brace, and right after it the marker if n > 1
MarkedOpener(sel, n) ==
    indent \o sel \o <<" ">>
    \o (IF n > 1 THEN TimesMarker(n) ELSE <<"{">>) \o <<"\n">>

\* C20 (as claimed): the opening line of the block of every group is the
\* selector, a space, the opening brace and, when the group has n > 1
\* members, the marker "/** n times */" right after that brace; the line of
\* a single child carries no marker.
Claim_C20_MarkerAfterOpeningBrace ==
    CssCalled
        => /\ Cardinality(ChildOpeners(last.ret1)) = Len(RootGroups)
           /\ \A g \in 1..Len(RootGroups) :
                 LineAt(last.ret1, NthChildOpener(last.ret1, g))
                     = MarkedOpener(RootScan.items[RootGroups[g].indexList[1]].sel,
                                    Len(RootGroups[g].indexList))

(***************************************************************************)
(* Depth limit properties (checked under SpecDepth).                       *)
(***************************************************************************)
\* the number of indent units the line at p starts with
RECURSIVE IndentUnitsAt(_, _)
IndentUnitsAt(out, p) ==
    IF Len(out) >= p + 1 /\ out[p] = " " /\ out[p + 1] = " "
    THEN 1 + IndentUnitsAt(out, p + 2)
    ELSE 0

\* a block at depth d has its lines at d units, its content lines at d + 1
NoBlockBelow(out, limit) ==
    limit.finite
        => \A p \in LineStarts(out) : IndentUnitsAt(out, p) <= limit.n + 1

Detached == {n \in Nodes \ {1} : ~Attached(n)}

\* C21: with a finite maxDepth no line of the output belongs to a block
\* deeper than maxDepth, and when the elements deeper than maxDepth have
\* been removed from the document the same call returns the same text and
\* ends with the same counters: they were neither counted nor a cause of
\* truncation.
Thm_C21_DeeperAsIfAbsent ==
    /\ [](CssCalled => NoBlockBelow(last.ret1, last.opts.maxDepth))
    /\ [][(/\ last.op = "css" /\ last'.op = "css"
           /\ last.times = 1 /\ last'.times = 2
           /\ last.opts.maxDepth.finite
           /\ Detached # {})
            => /\ last'.ret1 = last.ret1
               /\ run' = run]_vars

Wit_C21_DeeperWouldTruncate ==
    /\ CssCalled /\ last.times = 2
    /\ last.opts.maxDepth = Finite(ShallowDepth)
    /\ last.opts.maxNodes = SmallMaxNodes
    /\ ~run.truncated
    /\ Cardinality(Detached) >= 2
    /\ ChildOpeners(last.ret1) # {}

(***************************************************************************)
(* Path line properties.                                                   *)
(***************************************************************************)
\* the line at p opens a block: after its indentation comes neither a
\* content line, nor a closing brace, nor the truncation comment
IsOpenerAt(out, p) ==
    LET q == p + 2 * IndentUnitsAt(out, p)
    IN /\ q <= Len(out)
       /\ out[q] \notin {" ", "}", "/", "\n"}
       /\ ~StartsWith(SubSeq(out, q, Len(out)), ContentStart)

Openers(out) == {p \in LineStarts(out) : IsOpenerAt(out, p)}

MarkerStart == <<" ", "{", " ", "/", "*", "*", " ">>

\* the line without its indentation and its line end
OpenerText(out, p) ==
    SubSeq(LineAt(out, p), 2 * IndentUnitsAt(out, p) + 1, Len(LineAt(out, p)) - 1)

\* the selector on an opening line: what stands before the opening brace
\* that ends the line, or before the brace and the count marker that end it
SelectorOn(text) ==
    IF EndsWith(text, <<" ", "{">>) THEN SubSeq(text, 1, Len(text) - 2)
    ELSE LET cuts == {i \in 1..Len(text) :
                         StartsWith(SubSeq(text, i, Len(text)), MarkerStart)}
         IN IF cuts = {} THEN text
            ELSE SubSeq(text, 1, (CHOOSE i \in cuts : \A j \in cuts : j <= i) - 1)

\* the opening line of the block at depth k that the line at p lies in
Enclosing(out, p, k) ==
    CHOOSE q \in Openers(out) :
        /\ q <= p /\ IndentUnitsAt(out, q) = k
        /\ \A r \in Openers(out) :
              (r <= p /\ IndentUnitsAt(out, r) = k) => r <= q

\* the selectors on the opening lines from the root block down to the block at p
TokensDownTo(out, p) ==
    [k \in 1..(IndentUnitsAt(out, p) + 1) |->
        SelectorOn(OpenerText(out, Enclosing(out, p, k - 1)))]

LineAfter(out, p) == p + Len(LineAt(out, p))

PathLinesFollow(out, p) ==
    /\ LineAfter(out, p) <= Len(out)
    /\ LineAt(out, LineAfter(out, p))
         = ContentLine(IndentUnitsAt(out, p),
                       join(TokensDownTo(out, p), DescendantSeparator))
    /\ LineAfter(out, LineAfter(out, p)) <= Len(out)
    /\ LineAt(out, LineAfter(out, LineAfter(out, p)))
         = ContentLine(IndentUnitsAt(out, p),
                       join(TokensDownTo(out, p), ChildSeparator))

Thm_C23_FilterRestored ==
    /\ (last.op = "highlightOff" /\ IsElement(last.a))
          => /\ StyleOf(last.a).filter = StyleOf(last.a).pageFilter
             /\ ~StyleOf(last.a).saved
    /\ \A n \in Nodes :
          StyleOf(n).saved => StyleOf(n).__esc_prevFilter = StyleOf(n).pageFilter

Wit_C23_BoostTakenBack ==
    /\ last.op = "highlightOff" /\ last.a = body
    /\ last.ret1 = <<"blur(2px)", ContrastBoost>>
    /\ StyleOf(body).filter = <<"blur(2px)">>
    /\ ~StyleOf(body).saved

(***************************************************************************)
(* Ceiling properties (checked under SpecFit).                             *)
(***************************************************************************)
RECURSIVE NoneSkippedUnder(_)
NoneSkippedUnder(n) ==
    \A i \in 1..Len(children(n)) :
        ~Skipped(children(n)[i]) /\ NoneSkippedUnder(children(n)[i])

\* C24 (as claimed): when the subtree of the root has at most maxNodes
\* elements, none of them skipped, and maxDepth is unbounded, the
\* truncation flag is never set during the call, the text does not end with
\* the truncation marker, and every child of the root is retained.
Claim_C24_NoTruncationWhenItFits ==
    (/\ CssCalled /\ ~last.opts.maxDepth.finite
     /\ NoneSkippedUnder(last.a)
     /\ SubtreeSize(last.a) <= last.opts.maxNodes)
        => /\ ~run.truncated
           /\ \A i \in 1..Len(run.history) : ~run.history[i].truncated
           /\ ~EndsWith(last.ret1, TruncationMarker)
           /\ Len(RootScan.items) = Len(children(last.a))

\* the Notices that are showing and the timers that will call dispose()
Live == {k \in 1..Len(notices) : ~notices[k].hidden}

PendingDispose ==
    {t \in 1..Len(timers) : timers[t].pending /\ timers[t].fn = "dispose"}

OneNoticeOneTimer ==
    /\ \A k \in Live :
          Cardinality({i \in 1..Len(noticers) : noticers[i]._n = k}) = 1
    /\ \A t \in PendingDispose : noticers[timers[t].of]._t = t
    /\ \A i \in 1..Len(noticers) :
          noticers[i]._t # null
              => noticers[i]._n # null /\ noticers[i]._t \in PendingDispose

\* show() on Noticer i: the Notice it holds afterwards is the one just
\* created, and no timer armed before the call is left pending for i
ShowReplaces(i) ==
    /\ Len(notices') = Len(notices) + 1
    /\ noticers'[i]._n = Len(notices')
    /\ \A t \in 1..Len(timers) :
          (timers[t].of = i /\ timers[t].fn = "dispose") => ~timers'[t].pending

\* C25: however show(), dispose() and the timers interleave, every Notice
\* that is showing is the one Notice of one Noticer and every pending
\* dispose timer is the one timer of its Noticer, armed by the show() that
\* created the Notice it will hide: show() leaves no earlier timer of the
\* Noticer pending.
Thm_C25_OneNoticeOneTimer ==
    /\ [](OneNoticeOneTimer)
    /\ [][last'.op = "show" => ShowReplaces(last'.a)]_vars

Wit_C25_SecondShowCancelledFirstTimer ==
    /\ last.op = "show" /\ last.a = 1
    /\ Len(notices) = 2 /\ notices[1].hidden /\ 2 \in Live
    /\ Len(timers) = 2 /\ timers[1].of = 1 /\ ~timers[1].pending
    /\ noticers[1]._n = 2 /\ noticers[1]._t = 2 /\ 2 \in PendingDispose

====
